---------------------------- MODULE Spec2Model ----------------------------
(***************************************************************************)
(* A model of the Tumblr backup tool (src/tumblr_backup.py).               *)
(*                                                                         *)
(* Python strings are TLA+ strings (TLC evaluates Len, \o and SubSeq on    *)
(* them); Python lists are sequences; a Python dict is a function whose    *)
(* DOMAIN is the set of keys that are present, so that dict.get(k, d) is   *)
(* Get(dict, k, d).  The methods of TumblrBackup are operators taking      *)
(* `self` (the configuration fields of the instance) and, where they touch *)
(* the disk, the network or self.youtube_urls, an environment record `env` *)
(* that is threaded through the calls in program order.                    *)
(***************************************************************************)
EXTENDS Integers, Sequences, FiniteSets, TLC

(***************************************************************************)
(* Python string and list primitives                                       *)
(***************************************************************************)

\* dict.get(key, default)
Get(d, key, default) == IF key \in DOMAIN d THEN d[key] ELSE default

\* s[i] as a one-character string (1-based)
CharAt(s, i) == SubSeq(s, i, i)

\* s[m-1:n] of Python: the characters m..n of s that exist
Slice(s, m, n) == SubSeq(s, IF m < 1 THEN 1 ELSE m, IF n > Len(s) THEN Len(s) ELSE n)

\* sub in s
Contains(s, sub) ==
    \E i \in 1..(Len(s) - Len(sub) + 1) : SubSeq(s, i, i + Len(sub) - 1) = sub

UpperAlphabet == "ABCDEFGHIJKLMNOPQRSTUVWXYZ"
LowerAlphabet == "abcdefghijklmnopqrstuvwxyz"

\* the lower-case letter of each upper-case letter
LowerOf ==
    [c \in {CharAt(UpperAlphabet, k) : k \in 1..26} |->
        CharAt(LowerAlphabet, CHOOSE k \in 1..26 : CharAt(UpperAlphabet, k) = c)]

\* c.lower() for one ASCII character
LowerChar(c) == IF c \in DOMAIN LowerOf THEN LowerOf[c] ELSE c

RECURSIVE Lower(_)
\* s.lower() (ASCII)
Lower(s) == IF s = "" THEN "" ELSE LowerChar(CharAt(s, 1)) \o Lower(SubSeq(s, 2, Len(s)))

RECURSIVE Repeat(_, _)
\* s * n
Repeat(s, n) == IF n <= 0 THEN "" ELSE s \o Repeat(s, n - 1)

Whitespace == {" ", "\n", "\t", "\r"}

RECURSIVE RStrip(_)
\* s.rstrip()
RStrip(s) ==
    IF s # "" /\ CharAt(s, Len(s)) \in Whitespace THEN RStrip(SubSeq(s, 1, Len(s) - 1)) ELSE s

RECURSIVE Join(_, _)
\* sep.join(parts)
Join(parts, sep) ==
    IF parts = <<>> THEN ""
    ELSE IF Len(parts) = 1 THEN parts[1]
    ELSE parts[1] \o sep \o Join(Tail(parts), sep)

\* the position of the first occurrence of the character c in s, 0 when absent
Find(s, c) ==
    IF \E i \in 1..Len(s) : CharAt(s, i) = c
    THEN CHOOSE i \in 1..Len(s) : CharAt(s, i) = c /\ \A j \in 1..(i - 1) : CharAt(s, j) # c
    ELSE 0

\* the position of the last occurrence of the character c in s, 0 when absent
RFind(s, c) ==
    IF \E i \in 1..Len(s) : CharAt(s, i) = c
    THEN CHOOSE i \in 1..Len(s) : CharAt(s, i) = c /\ \A j \in (i + 1)..Len(s) : CharAt(s, j) # c
    ELSE 0

RECURSIVE Split(_, _)
\* s.split(c) for a one-character separator c
Split(s, c) ==
    LET k == Find(s, c)
    IN  IF k = 0 THEN <<s>>
        ELSE <<SubSeq(s, 1, k - 1)>> \o Split(SubSeq(s, k + 1, Len(s)), c)

Digits == "0123456789"

RECURSIVE IntToStr(_)
\* str(n) for n >= 0
IntToStr(n) ==
    IF n < 10 THEN CharAt(Digits, n + 1)
    ELSE IntToStr(n \div 10) \o CharAt(Digits, (n % 10) + 1)

RECURSIVE StrToInt(_)
\* int(s) for a string of decimal digits
StrToInt(s) ==
    IF s = "" THEN 0
    ELSE 10 * StrToInt(SubSeq(s, 1, Len(s) - 1)) + (Find(Digits, CharAt(s, Len(s))) - 1)

\* "%02d" % n, as strftime pads %m, %d, %H and %M
Pad2(n) == IF n < 10 THEN "0" \o IntToStr(n) ELSE IntToStr(n)

\* "%04d" % n, as strftime("%Y") prints the years the model uses (1970..9999)
Pad4(n) == Repeat("0", 4 - Len(IntToStr(n))) \o IntToStr(n)

(***************************************************************************)
(* datetime.fromtimestamp(ts, tz=ZoneInfo("Australia/Sydney")) and         *)
(* strftime.  Civil dates by the days-from-civil algorithm; the zone by    *)
(* the rule in force since 2008 (daylight time from the first Sunday of    *)
(* October 02:00 AEST to the first Sunday of April 03:00 AEDT).  Before    *)
(* 1971 New South Wales kept AEST all year, which covers timestamp 0 (the  *)
(* default of post.get("timestamp", 0)); the years 1971..2007 had other    *)
(* transition dates and are outside the model's timestamps.                *)
(***************************************************************************)
SecondsPerDay == 86400
AEST == 36000
AEDT == 39600
\* 2008-01-01T00:00:00Z
RuleStart == 1199145600

DaysFromYearOfEra(era, yoe, doy) ==
    era * 146097 + yoe * 365 + yoe \div 4 - yoe \div 100 + doy - 719468

DaysFromShiftedYear(yy, mp, d) ==
    DaysFromYearOfEra(yy \div 400, yy % 400, (153 * mp + 2) \div 5 + d - 1)

\* the day number (days since 1970-01-01) of the civil date y-m-d
DaysFromCivil(y, m, d) ==
    DaysFromShiftedYear(IF m <= 2 THEN y - 1 ELSE y, IF m > 2 THEN m - 3 ELSE m + 9, d)

CivilRecord(y, m, d) == [year |-> IF m <= 2 THEN y + 1 ELSE y, month |-> m, day |-> d]

CivilFromMonthIndex(era, yoe, doy, mp) ==
    CivilRecord(yoe + era * 400, IF mp < 10 THEN mp + 3 ELSE mp - 9,
                doy - (153 * mp + 2) \div 5 + 1)

CivilFromYearOfEra(era, doe, yoe) ==
    CivilFromMonthIndex(era, yoe, doe - (365 * yoe + yoe \div 4 - yoe \div 100),
                        (5 * (doe - (365 * yoe + yoe \div 4 - yoe \div 100)) + 2) \div 153)

CivilFromDayOfEra(era, doe) ==
    CivilFromYearOfEra(era, doe,
                       (doe - doe \div 1460 + doe \div 36524 - doe \div 146096) \div 365)

\* the civil date of day number z
CivilFromDays(z) == CivilFromDayOfEra((z + 719468) \div 146097, (z + 719468) % 146097)

\* the first Sunday on or after day number first; 1970-01-01 was a Thursday
SundayOnOrAfter(first) == first + ((7 - ((first + 4) % 7)) % 7)

\* day number of the first Sunday of month m of year y
FirstSunday(y, m) == SundayOnOrAfter(DaysFromCivil(y, m, 1))

\* the UTC offset at ts, an instant of the UTC year y
UtcOffsetInYear(ts, y) ==
    IF \/ ts >= FirstSunday(y, 10) * SecondsPerDay + 2 * 3600 - AEST
       \/ ts < FirstSunday(y, 4) * SecondsPerDay + 3 * 3600 - AEDT
    THEN AEDT ELSE AEST

\* the UTC offset of Australia/Sydney at the instant ts
UtcOffset(ts) ==
    IF ts < RuleStart THEN AEST
    ELSE UtcOffsetInYear(ts, CivilFromDays(ts \div SecondsPerDay).year)

DateTimeFields(date, secs) ==
    [year |-> date.year, month |-> date.month, day |-> date.day,
     hour |-> secs \div 3600, minute |-> (secs % 3600) \div 60]

LocalDateTime(local) ==
    DateTimeFields(CivilFromDays(local \div SecondsPerDay), local % SecondsPerDay)

\* datetime.fromtimestamp(ts, tz=self.tz), as the fields strftime reads
fromtimestamp(ts) == LocalDateTime(ts + UtcOffset(ts))

\* date.strftime("%Y/%m/%d")
strftime_date_key(date) == Pad4(date.year) \o "/" \o Pad2(date.month) \o "/" \o Pad2(date.day)

\* date.strftime("%Y-%m-%d")
strftime_iso(date) == Pad4(date.year) \o "-" \o Pad2(date.month) \o "-" \o Pad2(date.day)

\* date.strftime("%H:%M")
strftime_time(date) == Pad2(date.hour) \o ":" \o Pad2(date.minute)

DateOfParts(parts) ==
    [year |-> StrToInt(parts[1]), month |-> StrToInt(parts[2]), day |-> StrToInt(parts[3])]

\* datetime.strptime(date_key, "%Y/%m/%d")
strptime_date_key(date_key) == DateOfParts(Split(date_key, "/"))

(***************************************************************************)
(* urllib.parse.urlparse and os.path.basename                              *)
(***************************************************************************)

\* the position of the first character of s that is in the set cs, 0 when none is
FindAny(s, cs) ==
    IF \E i \in 1..Len(s) : CharAt(s, i) \in cs
    THEN CHOOSE i \in 1..Len(s) :
            CharAt(s, i) \in cs /\ \A j \in 1..(i - 1) : CharAt(s, j) \notin cs
    ELSE 0

\* s up to, not including, position k; all of s when k = 0
Before(s, k) == IF k = 0 THEN s ELSE SubSeq(s, 1, k - 1)

\* s from position k on; nothing when k = 0
From(s, k) == IF k = 0 THEN "" ELSE SubSeq(s, k, Len(s))

SchemeFirst == {CharAt(LowerAlphabet, k) : k \in 1..26} \cup {CharAt(UpperAlphabet, k) : k \in 1..26}
SchemeChars == SchemeFirst \cup {CharAt(Digits, k) : k \in 1..10} \cup {"+", "-", "."}

\* the position of the colon that ends the scheme of url, 0 when url has no scheme
SchemeEndAt(url, colon) ==
    IF /\ colon > 1
       /\ CharAt(url, 1) \in SchemeFirst
       /\ \A i \in 1..(colon - 1) : CharAt(url, i) \in SchemeChars
    THEN colon ELSE 0

\* the path without the parameters of its last segment (";...")
StripParamsAt(p, semi) == IF semi = 0 THEN p ELSE SubSeq(p, 1, semi - 1)

StripParamsAfter(p, slash) ==
    StripParamsAt(p, IF Find(SubSeq(p, slash + 1, Len(p)), ";") = 0 THEN 0
                     ELSE slash + Find(SubSeq(p, slash + 1, Len(p)), ";"))

StripParams(p) == StripParamsAfter(p, RFind(p, "/"))

\* rest is what follows the netloc: the path, then "?query" and "#fragment"
ParsePath(scheme, netloc, rest) ==
    [scheme |-> scheme, netloc |-> netloc,
     path |-> StripParams(Before(Before(rest, Find(rest, "#")),
                                 Find(Before(rest, Find(rest, "#")), "?")))]

SplitNetlocAt(scheme, after, netEnd) ==
    ParsePath(scheme, Before(after, netEnd), From(after, netEnd))

ParseNetloc(scheme, rest) ==
    IF Slice(rest, 1, 2) = "//"
    THEN SplitNetlocAt(scheme, SubSeq(rest, 3, Len(rest)),
                       FindAny(SubSeq(rest, 3, Len(rest)), {"/", "?", "#"}))
    ELSE SplitNetlocAt(scheme, rest, 1)

ParseAfterScheme(url, colon) ==
    ParseNetloc(Lower(SubSeq(url, 1, colon - 1)), SubSeq(url, colon + 1, Len(url)))

\* urlparse(url), as the fields the program and the properties read
urlparse(url) == ParseAfterScheme(url, SchemeEndAt(url, Find(url, ":")))

\* os.path.basename(path)
basename(path) == SubSeq(path, RFind(path, "/") + 1, Len(path))

(***************************************************************************)
(* The environment of a render: the attachment files on disk, the calls    *)
(* made, the HTTP requests issued, self.youtube_urls and the outcomes the  *)
(* outside world gives to the download_attachments calls still to come.    *)
(*   att    set of [dir, name, src, complete]: the file dir/name holds the *)
(*          bytes fetched from src, all of them iff complete               *)
(*   calls  sequence of [url, site, ret]: the download_attachments calls,  *)
(*          the place in the renderer that made each, and what it returned *)
(*   gets   sequence of the URLs requested with requests.get               *)
(*   yt     self.youtube_urls                                              *)
(*   orc    outcomes of the coming download_attachments calls; "ok" once   *)
(*          the sequence is used up                                        *)
(*   site   the place in the renderer that makes the next call             *)
(***************************************************************************)
Outcomes == {"ok", "mkdir_fail", "http_fail", "write_fail"}

NextOutcome(env) == IF env.orc = <<>> THEN "ok" ELSE Head(env.orc)
RestOutcomes(env) == IF env.orc = <<>> THEN <<>> ELSE Tail(env.orc)

\* attachments_path.exists(): attachments_dir / "" is the directory itself
PathExists(att, dir, name) ==
    name = "" \/ \E f \in att : f.dir = dir /\ f.name = name

\* the string returned for a file that is (now) on disk
LocalPath(filename) == "Attachments/" \o filename

\* the file that open(attachments_path, "wb") and the writes leave on disk
Fetched(url, dir, filename, complete) ==
    [dir |-> dir, name |-> filename, src |-> url, complete |-> complete]

\* attachments_dir.mkdir(parents=True, exist_ok=True) raises: only a directory that
\* is not there yet can fail to be created, and one that holds a file is there
MkdirFails(outcome, att, dir) == outcome = "mkdir_fail" /\ ~\E f \in att : f.dir = dir

\* a variant of the body that does not look for the file on disk before the request
DownloadWithoutSkip(url, dir, filename, outcome, env) ==
    IF MkdirFails(outcome, env.att, dir)
    THEN [ret |-> url, env |-> env]
    ELSE IF outcome = "http_fail"
    THEN [ret |-> url, env |-> [env EXCEPT !.gets = Append(@, url)]]
    ELSE IF outcome = "write_fail"
    THEN [ret |-> url,
          env |-> [env EXCEPT !.gets = Append(@, url),
                              !.att = @ \cup {Fetched(url, dir, filename, FALSE)}]]
    ELSE [ret |-> LocalPath(filename),
          env |-> [env EXCEPT !.gets = Append(@, url),
                              !.att = @ \cup {Fetched(url, dir, filename, TRUE)}]]

\* a variant of the body whose handler of a failed request returns the local path
DownloadPathOnFailedRequest(url, dir, filename, outcome, env) ==
    IF MkdirFails(outcome, env.att, dir)
    THEN [ret |-> url, env |-> env]
    ELSE IF PathExists(env.att, dir, filename)
    THEN [ret |-> LocalPath(filename), env |-> env]
    ELSE IF outcome = "http_fail"
    THEN [ret |-> LocalPath(filename), env |-> [env EXCEPT !.gets = Append(@, url)]]
    ELSE IF outcome = "write_fail"
    THEN [ret |-> url,
          env |-> [env EXCEPT !.gets = Append(@, url),
                              !.att = @ \cup {Fetched(url, dir, filename, FALSE)}]]
    ELSE [ret |-> LocalPath(filename),
          env |-> [env EXCEPT !.gets = Append(@, url),
                              !.att = @ \cup {Fetched(url, dir, filename, TRUE)}]]

\* the body of download_attachments for the file name and the outcome at hand
Download(url, dir, filename, outcome, env) ==
    IF MkdirFails(outcome, env.att, dir)
    THEN [ret |-> url, env |-> env]
    ELSE IF PathExists(env.att, dir, filename)
    THEN [ret |-> LocalPath(filename), env |-> env]
    ELSE IF outcome = "http_fail"
    THEN [ret |-> url, env |-> [env EXCEPT !.gets = Append(@, url)]]
    ELSE IF outcome = "write_fail"
    THEN [ret |-> url,
          env |-> [env EXCEPT !.gets = Append(@, url),
                              !.att = @ \cup {Fetched(url, dir, filename, FALSE)}]]
    ELSE [ret |-> LocalPath(filename),
          env |-> [env EXCEPT !.gets = Append(@, url),
                              !.att = @ \cup {Fetched(url, dir, filename, TRUE)}]]

\* the call and its result entered in the log of calls
Logged(url, site, r) ==
    [ret |-> r.ret,
     env |-> [r.env EXCEPT !.calls = Append(@, [url |-> url, site |-> site, ret |-> r.ret])]]

\* download_attachments(self, attachments_url, attachments_dir)
download_attachments(attachments_url, attachments_dir, env) ==
    Logged(attachments_url, env.site,
           Download(attachments_url, attachments_dir,
                    basename(urlparse(attachments_url).path), NextOutcome(env),
                    [env EXCEPT !.orc = RestOutcomes(env)]))

VideoDomains == <<"youtube.com", "youtu.be", "vimeo.com", "instagram.com">>
AudioDomains == <<"spotify.com", "soundcloud.com", "bandcamp.com">>
YouTubeDomains == <<"youtube.com", "youtu.be">>

\* any(domain in lowered for domain in domains)
AnyDomainIn(lowered, domains) == \E k \in 1..Len(domains) : Contains(lowered, domains[k])

\* is_external_attachments(self, url, attachments_type)
is_external_attachments(url, attachments_type) ==
    IF attachments_type = "video" THEN AnyDomainIn(Lower(url), VideoDomains)
    ELSE IF attachments_type = "audio" THEN AnyDomainIn(Lower(url), AudioDomains)
    ELSE FALSE

\* is_youtube_url(self, url)
is_youtube_url(url) == AnyDomainIn(Lower(url), YouTubeDomains)

(***************************************************************************)
(* process_npf_content_blocks.  The list of lines under construction and   *)
(* the environment travel together as acc = [lines, env].                  *)
(***************************************************************************)

\* lines.append / lines.extend
AddLines(acc, lines) == [acc EXCEPT !.lines = @ \o lines]

\* quote_prefix = ">" * quote_level if quote_level > 0 else ""
QuotePrefix(quote_level) == IF quote_level > 0 THEN Repeat(">", quote_level) ELSE ""

\* the line appended after a block: quote_prefix.rstrip() if quote_prefix else ""
SeparatorLine(quote_prefix) == IF quote_prefix # "" THEN RStrip(quote_prefix) ELSE ""

\* a variant of the separator that follows the last block as well
SeparatorAfterEveryBlock(i, n, quote_prefix) == <<SeparatorLine(quote_prefix)>>

\* "if i < len(blocks) - 1: lines.append(...)", i counted from 1 here
BlockSeparator(i, n, quote_prefix) ==
    IF i < n THEN <<SeparatorLine(quote_prefix)>> ELSE <<>>

\* the subtype formatting of a text block
ApplySubtype(text, subtype) ==
    IF subtype = "heading1" THEN "# " \o text
    ELSE IF subtype = "heading2" THEN "## " \o text
    ELSE IF subtype = "quote" THEN "> " \o text
    ELSE IF subtype = "indented" THEN "  " \o text
    ELSE IF subtype = "chat" THEN "**" \o text \o "**"
    ELSE text

\* [f"{quote_prefix}{line}" for line in lines]
PrefixLines(quote_prefix, lines) == [k \in 1..Len(lines) |-> quote_prefix \o lines[k]]

\* a variant of the image decision that downloads whatever the flag says
AlwaysDownloadImages(self) == TRUE

\* the download-or-embed decision of an image block or a legacy photo
ImageWantsDownload(self) == self.download_images

\* the download-or-embed decision of a video block or a legacy video post
VideoWantsDownload(self, url) ==
    self.download_videos /\ ~is_external_attachments(url, "video")

\* the download-or-embed decision of an audio block or a legacy audio post
AudioWantsDownload(self, url) ==
    self.download_audio /\ ~is_external_attachments(url, "audio")

\* "if self.add_to_youtube_playlist and self.is_youtube_url(url): append"
CollectYouTube(self, url, env) ==
    IF self.add_to_youtube_playlist /\ is_youtube_url(url)
    THEN [env EXCEPT !.yt = Append(@, url)]
    ELSE env

\* the string to embed for a media URL: the result of download_attachments when the
\* decision is to download, the URL itself otherwise
Embed(wants, url, attachments_dir, site, env) ==
    IF wants
    THEN download_attachments(url, attachments_dir, [env EXCEPT !.site = site])
    ELSE [ret |-> url, env |-> env]

\* lines.append(f"{opening}{r.ret})") and what follows it, r the result of Embed
AddEmbedded(lines, opening, after, r) ==
    [lines |-> lines \o <<opening \o r.ret \o ")">> \o after, env |-> r.env]

TextBlock(block, i, n, quote_prefix, acc) ==
    IF Get(block, "text", "") # ""
    THEN AddLines(acc, PrefixLines(quote_prefix,
                           Split(ApplySubtype(block["text"], Get(block, "subtype", "")), "\n"))
                       \o BlockSeparator(i, n, quote_prefix))
    ELSE acc

\* media[0].get("url", "") of an image block, "" when media is empty
FirstMediaUrl(media) == IF media # <<>> THEN Get(media[1], "url", "") ELSE ""

ImageAt(self, url, i, n, attachments_dir, quote_prefix, acc) ==
    IF url # ""
    THEN AddEmbedded(acc.lines, quote_prefix \o "![Image](", BlockSeparator(i, n, quote_prefix),
                     Embed(ImageWantsDownload(self), url, attachments_dir, "image_block",
                           acc.env))
    ELSE acc

ImageBlock(self, block, i, n, attachments_dir, quote_prefix, acc) ==
    ImageAt(self, FirstMediaUrl(Get(block, "media", <<>>)), i, n, attachments_dir,
            quote_prefix, acc)

VideoAt(self, url, i, n, attachments_dir, quote_prefix, acc) ==
    IF url # ""
    THEN AddEmbedded(acc.lines, quote_prefix \o "[Video](", BlockSeparator(i, n, quote_prefix),
                     Embed(VideoWantsDownload(self, url), url, attachments_dir, "video_block",
                           CollectYouTube(self, url, acc.env)))
    ELSE acc

VideoBlock(self, block, i, n, attachments_dir, quote_prefix, acc) ==
    VideoAt(self, Get(Get(block, "media", <<>>), "url", ""), i, n, attachments_dir,
            quote_prefix, acc)

AudioAt(self, url, i, n, attachments_dir, quote_prefix, acc) ==
    IF url # ""
    THEN AddEmbedded(acc.lines, quote_prefix \o "[Audio](", BlockSeparator(i, n, quote_prefix),
                     Embed(AudioWantsDownload(self, url), url, attachments_dir, "audio_block",
                           acc.env))
    ELSE acc

AudioBlock(self, block, i, n, attachments_dir, quote_prefix, acc) ==
    AudioAt(self, Get(Get(block, "media", <<>>), "url", ""), i, n, attachments_dir,
            quote_prefix, acc)

LinkAt(url, title, i, n, quote_prefix, acc) ==
    IF url # ""
    THEN AddLines(acc, <<quote_prefix \o "[" \o title \o "](" \o url \o ")">>
                       \o BlockSeparator(i, n, quote_prefix))
    ELSE acc

\* a variant of the link block whose title has the empty string as its default
LinkBlockUntitled(block, i, n, quote_prefix, acc) ==
    LinkAt(Get(block, "url", ""), Get(block, "title", ""), i, n, quote_prefix, acc)

LinkBlock(block, i, n, quote_prefix, acc) ==
    LinkAt(Get(block, "url", ""), Get(block, "title", Get(block, "url", "")), i, n,
           quote_prefix, acc)

BlockOfType(block_type, self, block, i, n, attachments_dir, quote_prefix, acc) ==
    IF block_type = "text" THEN TextBlock(block, i, n, quote_prefix, acc)
    ELSE IF block_type = "image"
    THEN ImageBlock(self, block, i, n, attachments_dir, quote_prefix, acc)
    ELSE IF block_type = "video"
    THEN VideoBlock(self, block, i, n, attachments_dir, quote_prefix, acc)
    ELSE IF block_type = "audio"
    THEN AudioBlock(self, block, i, n, attachments_dir, quote_prefix, acc)
    ELSE IF block_type = "link" THEN LinkBlock(block, i, n, quote_prefix, acc)
    ELSE acc

\* one iteration of "for i, block in enumerate(blocks)"
ProcessBlock(self, block, i, n, attachments_dir, quote_prefix, acc) ==
    BlockOfType(Get(block, "type", ""), self, block, i, n, attachments_dir, quote_prefix, acc)

RECURSIVE ProcessBlocksFrom(_, _, _, _, _, _)
\* the loop over the blocks from block i on
ProcessBlocksFrom(self, blocks, i, attachments_dir, quote_prefix, acc) ==
    IF i > Len(blocks) THEN acc
    ELSE ProcessBlocksFrom(self, blocks, i + 1, attachments_dir, quote_prefix,
             ProcessBlock(self, blocks[i], i, Len(blocks), attachments_dir, quote_prefix, acc))

\* process_npf_content_blocks(self, blocks, attachments_dir, quote_level): the lines
\* returned and the environment left
process_npf_content_blocks(self, blocks, attachments_dir, quote_level, env) ==
    ProcessBlocksFrom(self, blocks, 1, attachments_dir, QuotePrefix(quote_level),
                      [lines |-> <<>>, env |-> env])

(***************************************************************************)
(* convert_to_markdown                                                     *)
(*                                                                         *)
(* SANY accepts no back-tick inside a string, so the back-tick that quotes *)
(* a tag is written as an apostrophe, and the dash before a quote's source *)
(* (not ASCII in the source file) as two hyphens.                          *)
(***************************************************************************)
TagQuote == "'"
SourceDash == "-- "

\* md_content.extend(r.lines), r the result of process_npf_content_blocks
Extend(lines, r) == [lines |-> lines \o r.lines, env |-> r.env]

\* the "## HH:MM" heading and its blank line
TimestampHeading(post, include_timestamp_heading) ==
    IF include_timestamp_heading
    THEN <<"## " \o strftime_time(fromtimestamp(Get(post, "timestamp", 0))), "">>
    ELSE <<>>

\* ", ".join(f"`{tag}`" for tag in tags)
QuotedTags(tags) == Join([k \in 1..Len(tags) |-> TagQuote \o tags[k] \o TagQuote], ", ")

\* the "Tags: ..." line and its blank line
TagsLines(post) ==
    IF Get(post, "tags", <<>>) # <<>>
    THEN <<"Tags: " \o QuotedTags(post["tags"]), "">>
    ELSE <<>>

\* a variant of the quote level that grows with the position in the trail
CumulativeQuoteLevel(i) == i

\* the quote_level passed for the trail entry at position i
TrailQuoteLevel(i) == 1

\* trail_item.get("blog", {}).get("name", "unknown"), followed by a colon
BlogLine(trail_item) == Get(Get(trail_item, "blog", <<>>), "name", "unknown") \o ":"

\* one iteration of "for i, trail_item in enumerate(trail)"
TrailItem(self, trail_item, i, attachments_dir, acc) ==
    IF Get(trail_item, "content", <<>>) # <<>>
    THEN AddLines(Extend(acc.lines \o <<BlogLine(trail_item)>>,
                         process_npf_content_blocks(self, trail_item["content"],
                                                    attachments_dir, TrailQuoteLevel(i),
                                                    acc.env)),
                  <<"">>)
    ELSE AddLines(acc, <<BlogLine(trail_item)>>)

RECURSIVE TrailFrom(_, _, _, _, _)
\* the loop over the trail from entry i on
TrailFrom(self, trail, i, attachments_dir, acc) ==
    IF i > Len(trail) THEN acc
    ELSE TrailFrom(self, trail, i + 1, attachments_dir,
                   TrailItem(self, trail[i], i, attachments_dir, acc))

\* "if trail: for i, trail_item in enumerate(trail): ..."
Trail(self, post, attachments_dir, acc) ==
    TrailFrom(self, Get(post, "trail", <<>>), 1, attachments_dir, acc)

\* "if content: md_content.extend(process_npf_content_blocks(content, ..., 0))"
OwnContent(self, post, attachments_dir, acc) ==
    IF Get(post, "content", <<>>) # <<>>
    THEN Extend(acc.lines,
                process_npf_content_blocks(self, post["content"], attachments_dir, 0, acc.env))
    ELSE acc

\* a variant of the guard that looks at the content blocks only
FallbackWithoutOwnBlocks(post) == Get(post, "content", <<>>) = <<>>

\* "if not trail and not content": the guard of the legacy fallback
UsesLegacy(post) == Get(post, "trail", <<>>) = <<>> /\ Get(post, "content", <<>>) = <<>>

\* "## {title}" and a blank line, when the title is not empty
TitleLines(title) == IF title # "" THEN <<"## " \o title, "">> ELSE <<>>

LegacyText(post, acc) ==
    AddLines(acc, TitleLines(Get(post, "title", "")) \o <<Get(post, "body", "")>>)

\* a line and a blank line, when the line is not empty
OptionalLine(line) == IF line # "" THEN <<line, "">> ELSE <<>>

\* the caption lines of a legacy photo, video or audio post
CaptionLines(post) == OptionalLine(Get(post, "caption", ""))

PhotoAt(self, url, attachments_dir, acc) ==
    IF url # ""
    THEN AddEmbedded(acc.lines, "![Photo](", <<"">>,
                     Embed(ImageWantsDownload(self), url, attachments_dir, "photo", acc.env))
    ELSE acc

RECURSIVE LegacyPhotosFrom(_, _, _, _, _)
\* "for photo in photos"
LegacyPhotosFrom(self, photos, k, attachments_dir, acc) ==
    IF k > Len(photos) THEN acc
    ELSE LegacyPhotosFrom(self, photos, k + 1, attachments_dir,
             PhotoAt(self, Get(Get(photos[k], "original_size", <<>>), "url", ""),
                     attachments_dir, acc))

LegacyPhoto(self, post, attachments_dir, acc) ==
    LegacyPhotosFrom(self, Get(post, "photos", <<>>), 1, attachments_dir,
                     AddLines(acc, CaptionLines(post)))

LegacyQuote(post, acc) ==
    AddLines(acc, <<"> " \o Get(post, "text", ""), "">>
                  \o (IF Get(post, "source", "") # ""
                      THEN <<SourceDash \o post["source"], "">> ELSE <<>>))

LegacyLink(post, acc) ==
    AddLines(acc, <<"## [" \o Get(post, "title", "") \o "](" \o Get(post, "url", "") \o ")", "">>
                  \o OptionalLine(Get(post, "description", "")))

\* whether r'src="([^"]+)"' matches s at position i
SrcMatchesAt(s, i) ==
    /\ Slice(s, i, i + 4) = "src=\""
    /\ i + 5 <= Len(s)
    /\ CharAt(s, i + 5) # "\""
    /\ Find(SubSeq(s, i + 5, Len(s)), "\"") > 0

\* group 1 of the match of r'src="([^"]+)"' at position i of s
SrcGroupAt(s, i) == Before(SubSeq(s, i + 5, Len(s)), Find(SubSeq(s, i + 5, Len(s)), "\""))

\* re.search(r'src="([^"]+)"', s): group 1 of the leftmost match, s itself when none
SrcOrSame(s) ==
    IF \E i \in 1..Len(s) : SrcMatchesAt(s, i)
    THEN SrcGroupAt(s, CHOOSE i \in 1..Len(s) :
                          SrcMatchesAt(s, i) /\ \A j \in 1..(i - 1) : ~SrcMatchesAt(s, j))
    ELSE s

\* players[-1].get("embed_code", "") with the URL extracted from it "if needed"
FromEmbedCode(embed) ==
    IF embed # "" /\ Contains(embed, "src=") THEN SrcOrSame(embed) ELSE embed

\* the embed code of the last player, "" when there is no player
LastEmbedCode(players) ==
    IF players # <<>> THEN Get(players[Len(players)], "embed_code", "") ELSE ""

\* the URL of a legacy video post: video_url, else from the last player's embed code
LegacyVideoUrl(post) ==
    IF Get(post, "video_url", "") = "" /\ "player" \in DOMAIN post
    THEN FromEmbedCode(LastEmbedCode(post["player"]))
    ELSE Get(post, "video_url", "")

VideoUrlAt(self, video_url, attachments_dir, acc) ==
    IF video_url # ""
    THEN AddEmbedded(acc.lines, "[Video](", <<"">>,
                     Embed(VideoWantsDownload(self, video_url), video_url, attachments_dir,
                           "legacy_video", acc.env))
    ELSE acc

LegacyVideo(self, post, attachments_dir, acc) ==
    VideoUrlAt(self, LegacyVideoUrl(post), attachments_dir, AddLines(acc, CaptionLines(post)))

\* "## {artist} - {track_name}" and a blank line, when either is not empty
TrackLines(artist, track_name) ==
    IF artist # "" \/ track_name # ""
    THEN <<"## " \o artist \o " - " \o track_name, "">> ELSE <<>>

\* audio_url, else audio_source_url when the post has one
LegacyAudioUrl(post) ==
    IF Get(post, "audio_url", "") = "" /\ "audio_source_url" \in DOMAIN post
    THEN post["audio_source_url"]
    ELSE Get(post, "audio_url", "")

AudioUrlAt(self, audio_url, attachments_dir, acc) ==
    IF audio_url # ""
    THEN AddEmbedded(acc.lines, "[Audio](", <<"">>,
                     Embed(AudioWantsDownload(self, audio_url), audio_url, attachments_dir,
                           "legacy_audio", acc.env))
    ELSE acc

LegacyAudio(self, post, attachments_dir, acc) ==
    AudioUrlAt(self, LegacyAudioUrl(post), attachments_dir,
               AddLines(acc, TrackLines(Get(post, "artist", ""), Get(post, "track_name", ""))
                             \o CaptionLines(post)))

\* a variant of the dispatch whose last branch is not guarded by its type
LegacyOfTypeOrAudio(post_type, self, post, attachments_dir, acc) ==
    IF post_type = "text" THEN LegacyText(post, acc)
    ELSE IF post_type = "photo" THEN LegacyPhoto(self, post, attachments_dir, acc)
    ELSE IF post_type = "quote" THEN LegacyQuote(post, acc)
    ELSE IF post_type = "link" THEN LegacyLink(post, acc)
    ELSE IF post_type = "video" THEN LegacyVideo(self, post, attachments_dir, acc)
    ELSE LegacyAudio(self, post, attachments_dir, acc)

\* the dispatch on post_type of the legacy fallback
LegacyOfType(post_type, self, post, attachments_dir, acc) ==
    IF post_type = "text" THEN LegacyText(post, acc)
    ELSE IF post_type = "photo" THEN LegacyPhoto(self, post, attachments_dir, acc)
    ELSE IF post_type = "quote" THEN LegacyQuote(post, acc)
    ELSE IF post_type = "link" THEN LegacyLink(post, acc)
    ELSE IF post_type = "video" THEN LegacyVideo(self, post, attachments_dir, acc)
    ELSE IF post_type = "audio" THEN LegacyAudio(self, post, attachments_dir, acc)
    ELSE acc

\* "if not trail and not content: <dispatch on post_type>"
Legacy(self, post, attachments_dir, acc) ==
    IF UsesLegacy(post)
    THEN LegacyOfType(Get(post, "type", "unknown"), self, post, attachments_dir, acc)
    ELSE acc

\* md_content at the end of convert_to_markdown, with the environment left
MdContent(self, post, attachments_dir, include_timestamp_heading, env) ==
    Legacy(self, post, attachments_dir,
        OwnContent(self, post, attachments_dir,
            Trail(self, post, attachments_dir,
                [lines |-> TimestampHeading(post, include_timestamp_heading) \o TagsLines(post),
                 env |-> env])))

\* "\n".join(md_content), with the environment left
Joined(r) == [ret |-> Join(r.lines, "\n"), env |-> r.env]

\* convert_to_markdown(self, post, attachments_dir, include_timestamp_heading)
convert_to_markdown(self, post, attachments_dir, include_timestamp_heading, env) ==
    Joined(MdContent(self, post, attachments_dir, include_timestamp_heading, env))

(***************************************************************************)
(* delete_post, get_daily_posts and the pieces of save_daily_posts         *)
(***************************************************************************)

\* str(post.get("id_string", post.get("id", "unknown")))
PostId(post) ==
    IF "id_string" \in DOMAIN post THEN post["id_string"]
    ELSE IF "id" \in DOMAIN post THEN IntToStr(post["id"])
    ELSE "unknown"

\* the date_key of a post: date.strftime("%Y/%m/%d") of its local date
DateKeyOf(post) == strftime_date_key(fromtimestamp(Get(post, "timestamp", 0)))

RECURSIVE DateKeysInOrder(_)
\* the keys of daily_posts in insertion order: the order of first appearance
DateKeysInOrder(posts) ==
    IF posts = <<>> THEN <<>>
    ELSE LET before == DateKeysInOrder(SubSeq(posts, 1, Len(posts) - 1))
             key    == DateKeyOf(posts[Len(posts)])
         IN  IF \E k \in 1..Len(before) : before[k] = key THEN before ELSE Append(before, key)

\* daily_posts[date_key] after the grouping loop: the posts of that day in input order
PostsOfDay(posts, date_key) == SelectSeq(posts, LAMBDA p : DateKeyOf(p) = date_key)

\* a variant of the insertion that puts an element before those of equal key
InsertBeforeEqual(sorted, post) ==
    Cardinality({k \in 1..Len(sorted) :
                    Get(sorted[k], "timestamp", 0) < Get(post, "timestamp", 0)})

\* where list.sort puts one more element: after every element whose key is not larger
InsertPosition(sorted, post) ==
    Cardinality({k \in 1..Len(sorted) :
                    Get(sorted[k], "timestamp", 0) <= Get(post, "timestamp", 0)})

RECURSIVE SortByTimestamp(_)
\* list.sort(key=lambda p: p.get("timestamp", 0)): ascending and stable
SortByTimestamp(list) ==
    IF list = <<>> THEN <<>>
    ELSE LET sorted == SortByTimestamp(SubSeq(list, 1, Len(list) - 1))
             post   == list[Len(list)]
             at     == InsertPosition(sorted, post)
         IN  SubSeq(sorted, 1, at) \o <<post>> \o SubSeq(sorted, at + 1, Len(sorted))

\* get_daily_posts(self, posts): the keys in dict order and the list of each key
get_daily_posts(posts) ==
    LET keys == DateKeysInOrder(posts)
    IN  [keys   |-> keys,
         groups |-> [key \in {keys[k] : k \in 1..Len(keys)} |->
                        SortByTimestamp(PostsOfDay(posts, key))]]

\* "if len(existing_content) > 10: return"
SkipThreshold == 10
\* a variant of the length test that takes 10 characters for substantial
AtLeastThreshold(existing_content) == Len(existing_content) >= SkipThreshold

HasSubstantialContent(existing_content) == Len(existing_content) > SkipThreshold

\* a variant of the skip test that never finds a day archived
NeverArchived(fs, date_key) == FALSE

\* the skip test of save_daily_posts: the file exists and has substantial content
AlreadyArchived(fs, date_key) ==
    date_key \in DOMAIN fs /\ HasSubstantialContent(fs[date_key])

\* attachments_dir = day_dir / day / "Attachments", named by its date_key
AttachmentsDir(date_key) == date_key \o "/Attachments"

\* daily_content before the loop: the H1 date heading and a blank line
DayHeading(date_key) == <<"# " \o strftime_iso(strptime_date_key(date_key)), "">>

\* what one iteration of "for post in posts" appends to daily_content
PostEntry(post_md) == <<post_md, "", "---", "">>

\* a variant of the removal that keeps the trailing separator
KeepTrailingSeparator(daily_content) == daily_content

\* "if daily_content[-1] == "" and daily_content[-2] == "---": daily_content[:-2]"
RemoveTrailingSeparator(daily_content) ==
    LET n == Len(daily_content)
    IN  IF n >= 2 /\ daily_content[n] = "" /\ daily_content[n - 1] = "---"
        THEN SubSeq(daily_content, 1, n - 2)
        ELSE daily_content

\* the text written to the day file
FileText(daily_content) == Join(RemoveTrailingSeparator(daily_content), "\n")

(***************************************************************************)
(* The archive: backup() runs over a blog, one after another               *)
(***************************************************************************)
VARIABLES
    config,         \* the config.json of the main() call of the run, NoConfig without one
    self,           \* the fields of the TumblrBackup instance of the current run
    env,            \* attachment files, self.youtube_urls and the calls of the last step
    files,          \* the day files on disk: date_key -> content
    files_before,   \* the day files that were on disk when the current run started
    written,        \* date_key -> the ids of the posts in its completely written file
    deleted,        \* ids of the posts deleted from the blog
    requested,      \* ids of the posts a delete request was sent for
    delete_calls,   \* the post ids delete_post was invoked with in the current call
    pc,             \* where the run is: idle, save, convert, delete, write, done, raised
    posts,          \* the posts fetch_all_posts returned to backup()
    daily_posts,    \* get_daily_posts(posts)
    day_index,      \* the position of backup()'s loop in daily_posts
    post_index,     \* the position of save_daily_posts' loop in the day's posts
    daily_content,  \* daily_content of save_daily_posts
    last_save,      \* the last save_daily_posts call that returned: its key and its path
    runs,           \* the number of runs started
    ended,          \* how the last run ended: none, complete or crashed
    rin,            \* the input of a single convert_to_markdown call
    rout,           \* its result
    gin,            \* the input of a single get_daily_posts call
    gout,           \* its result
    fin,            \* the input of a single fetch_all_posts call: the instance, the API, the clock
    fpc,            \* where the call is: idle, start, loop, returned
    all_posts,      \* all_posts of fetch_all_posts
    offset,         \* offset of fetch_all_posts
    cutoff_timestamp,   \* cutoff_timestamp of fetch_all_posts, 0 standing for None
    fetch_log,      \* the requests sent so far, each with its offset and its response
    uin,            \* the size in bytes of the file upload_folder_to_dropbox is at
    upc,            \* where the upload of the file is: idle, file, start, loop, done, failed
    tell,           \* file_obj.tell()
    cursor,         \* the offset of the UploadSessionCursor
    api_calls,      \* the Dropbox calls issued for the file, in order
    uploaded_count, \* uploaded_count of upload_folder_to_dropbox
    yin,            \* the input of an add_videos_to_playlist call: video_urls and the playlist
    ypc,            \* where the call is: idle, start, loop, returned
    video_ids,      \* video_ids of add_videos_to_playlist
    existing_ids,   \* existing_ids of add_videos_to_playlist
    vid_index,      \* the position of its loop in video_ids
    playlist,       \* the video ids of the items of the playlist, in order
    insert_log,     \* the insert requests issued, each with the playlist at that time
    results         \* results of add_videos_to_playlist

archiveVars == <<config, self, env, files, files_before, written, deleted, requested,
                 delete_calls, pc, posts,
                 daily_posts, day_index, post_index, daily_content, last_save, runs, ended>>
renderVars == <<rin, rout>>
groupVars == <<gin, gout>>
fetchVars == <<fin, fpc, all_posts, offset, cutoff_timestamp, fetch_log>>
uploadVars == <<uin, upc, tell, cursor, api_calls, uploaded_count>>
playlistVars ==
    <<yin, ypc, video_ids, existing_ids, vid_index, playlist, insert_log, results>>
vars == <<archiveVars, renderVars, groupVars, fetchVars, uploadVars, playlistVars>>

None == "none"

\* Bounds
MaxRuns == 2
MaxPosts == 2
MaxOracle == 2
MaxGroupPosts == 3
MaxQuoteLevel == 2
MaxBlogPosts == 41
MaxFileChunks == 39
MaxUrls == 3

\* Local times (Australia/Sydney) of the timestamps used:
\*   1709987400  2024-03-09 23:30      1709991000  2024-03-10 00:30
\*   1710072000  2024-03-10 23:00      0 (absent)  1970-01-01 10:00
LateEvening == 1709987400
AfterMidnight == 1709991000
NextEvening == 1710072000

ImageUrl == "https://64.media.tumblr.com/ab/pic.jpg"

TextPost ==
    [id_string |-> "101", timestamp |-> AfterMidnight, tags |-> <<"a", "b">>,
     content |-> <<[type |-> "text", text |-> "hello"]>>]
MediaPost ==
    [id_string |-> "102", timestamp |-> AfterMidnight,
     content |-> <<[type |-> "image", media |-> <<[url |-> ImageUrl]>>],
                   [type |-> "video", media |-> [url |-> "https://youtu.be/abc"]]>>]
ReblogPost ==
    [id |-> 103, timestamp |-> LateEvening,
     trail |-> <<[blog |-> [name |-> "orig"],
                  content |-> <<[type |-> "text", text |-> "first"]>>]>>,
     content |-> <<[type |-> "text", text |-> "mine"]>>]

\* the posts of the blog
BlogPosts == {TextPost, MediaPost, ReblogPost}

\* sequences without repetition of at most n elements of S
RECURSIVE DistinctSeqs(_, _)
DistinctSeqs(S, n) ==
    IF n = 0 THEN {<<>>}
    ELSE LET shorter == DistinctSeqs(S, n - 1)
         IN  shorter \cup
             UNION {{Append(q, x) : x \in {y \in S : \A i \in 1..Len(q) : q[i] # y}} :
                    q \in shorter}

\* what fetch_all_posts may return: posts still on the blog, each once, in any order
FetchResults == DistinctSeqs({p \in BlogPosts : PostId(p) \notin deleted}, MaxPosts)

\* the configurations a run is started with.  main() refuses delete_after_backup without
\* OAuth credentials (lines 679-682); the last configuration is that of a TumblrBackup
\* constructed by other code, which __init__ allows
Configs ==
    { [download_images |-> TRUE, download_videos |-> TRUE, download_audio |-> TRUE,
       delete_after_backup |-> FALSE, add_to_youtube_playlist |-> FALSE, auth |-> FALSE],
      [download_images |-> FALSE, download_videos |-> FALSE, download_audio |-> FALSE,
       delete_after_backup |-> TRUE, add_to_youtube_playlist |-> TRUE, auth |-> TRUE],
      [download_images |-> TRUE, download_videos |-> FALSE, download_audio |-> FALSE,
       delete_after_backup |-> TRUE, add_to_youtube_playlist |-> FALSE, auth |-> FALSE] }

\* the lengths a day file is left with when writing it fails midway
PartialLengths == {10, 11}
WriteOutcomes ==
    {[kind |-> "ok", length |-> 0], [kind |-> "open_fail", length |-> 0]}
        \cup {[kind |-> "partial", length |-> n] : n \in PartialLengths}

EmptyEnv == [att |-> {}, calls |-> <<>>, gets |-> <<>>, yt |-> <<>>, orc |-> <<>>, site |-> ""]
NoDailyPosts == [keys |-> <<>>, groups |-> <<>>]
NoSave == [key |-> None, path |-> None]

\* the environment a step starts with: the log of calls holds the calls of one step
StepEnv(e, orc) == [e EXCEPT !.calls = <<>>, !.gets = <<>>, !.orc = orc, !.site = ""]

\* the outcomes the outside world may give to the download_attachments calls of a step
Oracles == [1..MaxOracle -> Outcomes]

\* the number of image, video and audio blocks of a list of content blocks
MediaBlocks(blocks) ==
    Cardinality({k \in 1..Len(blocks) :
                    Get(blocks[k], "type", "") \in {"image", "video", "audio"}})

RECURSIVE TrailMediaBlocks(_)
TrailMediaBlocks(trail) ==
    IF trail = <<>> THEN 0
    ELSE MediaBlocks(Get(trail[1], "content", <<>>)) + TrailMediaBlocks(Tail(trail))

\* the outcomes that can matter to a structured post: one per media block at most
OraclesFor(post) ==
    {SubSeq(orc, 1, MediaBlocks(Get(post, "content", <<>>))
                      + TrailMediaBlocks(Get(post, "trail", <<>>))) : orc \in Oracles}

\* no main() call has read a config.json
NoConfig == [config_file |-> "none"]
Loaded(c) == "delete_after_backup" \in DOMAIN c

ArchiveInit ==
    /\ config = NoConfig
    /\ self = CHOOSE c \in Configs : ~c.delete_after_backup
    /\ env = EmptyEnv
    /\ files = <<>>
    /\ files_before = <<>>
    /\ written = <<>>
    /\ deleted = {}
    /\ requested = {}
    /\ delete_calls = <<>>
    /\ pc = "idle"
    /\ posts = <<>>
    /\ daily_posts = NoDailyPosts
    /\ day_index = 0
    /\ post_index = 0
    /\ daily_content = <<>>
    /\ last_save = NoSave
    /\ runs = 0
    /\ ended = None

RenderIdle == rin = None /\ rout = <<>>
GroupIdle == gin = None /\ gout = <<>>
FetchIdle ==
    /\ fin = None /\ fpc = "idle" /\ all_posts = <<>> /\ offset = 0
    /\ cutoff_timestamp = 0 /\ fetch_log = <<>>
UploadIdle ==
    /\ uin = 0 /\ upc = "idle" /\ tell = 0 /\ cursor = 0 /\ api_calls = <<>>
    /\ uploaded_count = 0
PlaylistIdle ==
    /\ yin = <<>> /\ ypc = "idle" /\ video_ids = <<>> /\ existing_ids = {}
    /\ vid_index = 0 /\ playlist = <<>> /\ insert_log = <<>>
    /\ results = [added |-> 0, skipped |-> 0, failed |-> 0]

Init == ArchiveInit /\ RenderIdle /\ GroupIdle /\ FetchIdle /\ UploadIdle /\ PlaylistIdle

\* the day backup()'s loop is at, and its posts
CurrentKey == daily_posts.keys[day_index]
CurrentPosts == daily_posts.groups[CurrentKey]

\* the ids of a list of posts
PostIds(list) == [k \in 1..Len(list) |-> PostId(list[k])]

\* save_daily_posts returned by the given path: backup() goes on to the next day or
\* returns to main()
ReturnFromSave(path) ==
    /\ last_save' = [key |-> CurrentKey, path |-> path]
    /\ ended' = ended
    /\ IF day_index < Len(daily_posts.keys)
       THEN day_index' = day_index + 1 /\ pc' = "save"
       ELSE day_index' = day_index /\ pc' = "done"

\* an exception leaves save_daily_posts, backup() and main()
Crash ==
    /\ pc' = "raised"
    /\ UNCHANGED <<day_index, last_save, ended>>

\* a variant of the loop that leaves it after a deletion that failed
NextPostUnlessFailed ==
    IF /\ post_index < Len(CurrentPosts)
       /\ (pc = "delete" => PostId(CurrentPosts[post_index]) \in deleted')
    THEN post_index' = post_index + 1 /\ pc' = "convert"
    ELSE post_index' = post_index /\ pc' = "write"

\* the loop "for post in posts" goes on to the next post or ends
NextPost ==
    IF post_index < Len(CurrentPosts)
    THEN post_index' = post_index + 1 /\ pc' = "convert"
    ELSE post_index' = post_index /\ pc' = "write"

\* backup() up to its loop over the days, for the instance main() has constructed and
\* the posts fetch_all_posts has returned
BackupWith(cfg, fetched) ==
    /\ runs' = runs + 1
    /\ self' = cfg
    /\ env' = [StepEnv(env, <<>>) EXCEPT !.yt = <<>>]
    /\ delete_calls' = <<>>
    /\ daily_content' = <<>>
    /\ post_index' = 0
    /\ last_save' = NoSave
    /\ posts' = fetched
    /\ daily_posts' = get_daily_posts(fetched)
    /\ ended' = None
    /\ files_before' = files
    /\ IF fetched = <<>>
       THEN day_index' = 0 /\ pc' = "done"
       ELSE day_index' = 1 /\ pc' = "save"
    /\ UNCHANGED <<files, written, deleted, requested>>

\* a TumblrBackup is constructed and backup() is called: fetch, group, then day by day
Backup ==
    /\ pc = "idle"
    /\ runs < MaxRuns
    /\ \E cfg \in Configs, fetched \in FetchResults : BackupWith(cfg, fetched)
    /\ UNCHANGED config

\* save_daily_posts up to the loop: the skip test and the date heading
SaveDailyPostsEnter ==
    /\ pc = "save"
    /\ env' = StepEnv(env, <<>>)
    /\ delete_calls' = <<>>
    /\ IF AlreadyArchived(files, CurrentKey)
       THEN /\ ReturnFromSave("skip")
            /\ daily_content' = <<>>
            /\ post_index' = 0
       ELSE /\ daily_content' = DayHeading(CurrentKey)
            /\ post_index' = 1
            /\ pc' = "convert"
            /\ UNCHANGED <<day_index, last_save, ended>>
    /\ UNCHANGED <<config, files_before>>
    /\ UNCHANGED <<self, files, written, deleted, requested, posts, daily_posts, runs>>

\* "post_md = ...; daily_content.append(post_md)" and the three appends after it
Converted(r) ==
    /\ daily_content' = daily_content \o PostEntry(r.ret)
    /\ env' = [r.env EXCEPT !.orc = <<>>, !.site = ""]

\* the loop body up to the deletion: convert_to_markdown and the four appends
ConvertPost ==
    /\ pc = "convert"
    /\ \E orc \in OraclesFor(CurrentPosts[post_index]) :
          Converted(convert_to_markdown(self, CurrentPosts[post_index],
                                        AttachmentsDir(CurrentKey), TRUE, StepEnv(env, orc)))
    /\ IF self.delete_after_backup
       THEN pc' = "delete" /\ post_index' = post_index
       ELSE NextPost
    /\ UNCHANGED <<config, files_before>>
    /\ UNCHANGED <<self, files, written, deleted, requested, delete_calls, posts,
                   daily_posts, day_index, last_save, runs, ended>>

\* a variant that sends the request whether or not self.auth is set
DeletePostUnguarded(cfg, post_id, accepted) == [ret |-> accepted, sent |-> TRUE]

\* delete_post(self, post_id): whether a request is sent, and what it returns when the
\* request succeeds (accepted) or raises a RequestException
delete_post(cfg, post_id, accepted) ==
    IF ~cfg.auth THEN [ret |-> FALSE, sent |-> FALSE]
    ELSE [ret |-> accepted, sent |-> TRUE]

\* the effects of a delete_post call on the blog and on the logs
Deleting(post_id, r) ==
    /\ delete_calls' = Append(delete_calls, post_id)
    /\ requested' = IF r.sent THEN requested \cup {post_id} ELSE requested
    /\ deleted' = IF r.sent /\ r.ret THEN deleted \cup {post_id} ELSE deleted

\* "if self.delete_after_backup: ... self.delete_post(str(post_id))"
DeletePost ==
    /\ pc = "delete"
    /\ \E accepted \in BOOLEAN :
          Deleting(PostId(CurrentPosts[post_index]),
                   delete_post(self, PostId(CurrentPosts[post_index]), accepted))
    /\ NextPost
    /\ env' = StepEnv(env, <<>>)
    /\ UNCHANGED <<config, files_before>>
    /\ UNCHANGED <<self, files, written, posts, daily_posts, day_index, daily_content,
                   last_save, runs, ended>>

\* f with key mapped to value
With(f, key, value) == [k \in DOMAIN f \cup {key} |-> IF k = key THEN value ELSE f[k]]

\* the end of save_daily_posts: open(filepath, "w") and f.write
WriteFile ==
    /\ pc = "write"
    /\ env' = StepEnv(env, <<>>)
    /\ \E outcome \in WriteOutcomes :
          IF outcome.kind = "ok"
          THEN /\ files' = With(files, CurrentKey, FileText(daily_content))
               /\ written' = With(written, CurrentKey, PostIds(CurrentPosts))
               /\ ReturnFromSave("write")
          ELSE IF outcome.kind = "open_fail"
          THEN /\ UNCHANGED <<files, written>>
               /\ Crash
          ELSE /\ files' = With(files, CurrentKey,
                                SubSeq(FileText(daily_content), 1, outcome.length))
               /\ UNCHANGED written
               /\ Crash
    /\ UNCHANGED <<config, files_before>>
    /\ UNCHANGED <<self, deleted, requested, delete_calls, posts, daily_posts, post_index,
                   daily_content, runs>>

\* the process ends, after backup() has returned to main() or by the exception: only
\* the disk and the blog remain
ProcessEnd ==
    /\ pc \in {"done", "raised"}
    /\ pc' = "idle"
    /\ ended' = IF pc = "done" THEN "complete" ELSE "crashed"
    /\ self' = CHOOSE c \in Configs : ~c.delete_after_backup
    /\ env' = [EmptyEnv EXCEPT !.att = env.att]
    /\ delete_calls' = <<>>
    /\ posts' = <<>>
    /\ daily_posts' = NoDailyPosts
    /\ day_index' = 0
    /\ post_index' = 0
    /\ daily_content' = <<>>
    /\ last_save' = NoSave
    /\ UNCHANGED <<config, files, files_before, written, deleted, requested, runs>>

Next ==
    \/ Backup /\ UNCHANGED <<renderVars, groupVars, fetchVars, uploadVars, playlistVars>>
    \/ SaveDailyPostsEnter /\ UNCHANGED <<renderVars, groupVars, fetchVars, uploadVars, playlistVars>>
    \/ ConvertPost /\ UNCHANGED <<renderVars, groupVars, fetchVars, uploadVars, playlistVars>>
    \/ DeletePost /\ UNCHANGED <<renderVars, groupVars, fetchVars, uploadVars, playlistVars>>
    \/ WriteFile /\ UNCHANGED <<renderVars, groupVars, fetchVars, uploadVars, playlistVars>>
    \/ ProcessEnd /\ UNCHANGED <<renderVars, groupVars, fetchVars, uploadVars, playlistVars>>

Spec == Init /\ [][Next]_vars

(***************************************************************************)
(* main(): the configuration is read and checked, then the backup runs     *)
(***************************************************************************)
\* bool(v) of a string or None of config.json
Truthy(v) == v # None /\ v # ""
\* all([...]) of a list of such values
All(values) == \A i \in 1..Len(values) : Truthy(values[i])
OAuthCredentials(c) == <<c.consumer_secret, c.oauth_token, c.oauth_token_secret>>
YouTubeCredentials(c) ==
    <<c.youtube_playlist_id, c.youtube_client_id, c.youtube_client_secret>>

\* lines 675-677
MissingIdentity(c) == ~Truthy(c.blog_identifier) \/ ~Truthy(c.api_key)
\* lines 680-682
DeleteWithoutOAuth(c) == c.delete_after_backup /\ ~All(OAuthCredentials(c))
\* lines 685-687
PlaylistWithoutCredentials(c) == c.add_to_youtube_playlist /\ ~All(YouTubeCredentials(c))
\* main() returns before it constructs the TumblrBackup
MainAborts(c) == MissingIdentity(c) \/ DeleteWithoutOAuth(c) \/ PlaylistWithoutCredentials(c)

\* TumblrBackup.__init__: the fields of the instance, auth set up from the credentials
TumblrBackupInit(c) ==
    [download_images |-> c.download_images, download_videos |-> c.download_videos,
     download_audio |-> c.download_audio, delete_after_backup |-> c.delete_after_backup,
     add_to_youtube_playlist |-> c.add_to_youtube_playlist,
     consumer_secret |-> c.consumer_secret, oauth_token |-> c.oauth_token,
     oauth_token_secret |-> c.oauth_token_secret,
     auth |-> All(OAuthCredentials(c))]

\* the three OAuth credentials as config.json may hold them: set, absent, empty
CredentialTriples ==
    { <<"cs", "ot", "os">>, <<None, "ot", "os">>, <<"cs", "", "os">>, <<"cs", "ot", None>>,
      <<None, None, None>> }
BaseConfig ==
    [blog_identifier |-> "blog", api_key |-> "key",
     download_images |-> FALSE, download_videos |-> FALSE, download_audio |-> FALSE,
     delete_after_backup |-> FALSE, add_to_youtube_playlist |-> FALSE,
     consumer_secret |-> None, oauth_token |-> None, oauth_token_secret |-> None,
     youtube_playlist_id |-> None, youtube_client_id |-> None,
     youtube_client_secret |-> None]
WithCredentials(c, triple, delete) ==
    [c EXCEPT !.consumer_secret = triple[1], !.oauth_token = triple[2],
              !.oauth_token_secret = triple[3], !.delete_after_backup = delete]
MainConfigs ==
    {WithCredentials(BaseConfig, triple, TRUE) : triple \in CredentialTriples}
      \cup {WithCredentials(BaseConfig, triple, FALSE) :
                triple \in {<<"cs", "ot", "os">>, <<None, "ot", "os">>}}
      \cup { [BaseConfig EXCEPT !.api_key = None],
             [BaseConfig EXCEPT !.add_to_youtube_playlist = TRUE],
             [WithCredentials(BaseConfig, <<"cs", "ot", "os">>, TRUE) EXCEPT
                  !.add_to_youtube_playlist = TRUE, !.youtube_playlist_id = "pl",
                  !.youtube_client_id = "ci", !.youtube_client_secret = "ys"] }
\* the arguments other code may construct a TumblrBackup with: __init__ checks nothing
DirectArguments ==
    {WithCredentials(BaseConfig, triple, TRUE) :
        triple \in {<<"cs", "", "os">>, <<None, None, None>>}}

\* main(): lines 642-704
Main ==
    /\ pc = "idle"
    /\ runs < MaxRuns
    /\ \E c \in MainConfigs :
        /\ config' = c
        /\ IF MainAborts(c)
           THEN /\ ended' = "aborted"
                /\ UNCHANGED <<self, env, files, files_before, written, deleted, requested, delete_calls,
                               pc, posts, daily_posts, day_index, post_index,
                               daily_content, last_save, runs>>
           ELSE \E fetched \in FetchResults : BackupWith(TumblrBackupInit(c), fetched)

\* a TumblrBackup constructed without main(), and its backup()
DirectBackup ==
    /\ pc = "idle"
    /\ runs < MaxRuns
    /\ config' = NoConfig
    /\ \E c \in DirectArguments, fetched \in FetchResults :
            BackupWith(TumblrBackupInit(c), fetched)

NextMain ==
    \/ Main /\ UNCHANGED <<renderVars, groupVars, fetchVars, uploadVars, playlistVars>>
    \/ DirectBackup /\ UNCHANGED <<renderVars, groupVars, fetchVars, uploadVars, playlistVars>>
    \/ SaveDailyPostsEnter /\ UNCHANGED <<renderVars, groupVars, fetchVars, uploadVars, playlistVars>>
    \/ ConvertPost /\ UNCHANGED <<renderVars, groupVars, fetchVars, uploadVars, playlistVars>>
    \/ DeletePost /\ UNCHANGED <<renderVars, groupVars, fetchVars, uploadVars, playlistVars>>
    \/ WriteFile /\ UNCHANGED <<renderVars, groupVars, fetchVars, uploadVars, playlistVars>>
    \/ ProcessEnd /\ UNCHANGED <<renderVars, groupVars, fetchVars, uploadVars, playlistVars>>

SpecMain == Init /\ [][NextMain]_vars


(***************************************************************************)
(* A single convert_to_markdown call, over a wider range of posts          *)
(***************************************************************************)
TumblrVideo == "https://va.media.tumblr.com/tumblr_v.mp4"
TumblrAudio == "https://a.tumblr.com/tumblr_s.mp3"
\* a video and an audio file on Tumblr's servers whose paths name an external site
NamedLikeYouTube == "https://va.media.tumblr.com/youtube.com_clip.mp4"
NamedLikeSpotify == "https://a.tumblr.com/spotify.com_rip.mp3"

ThreadPost ==
    [timestamp |-> NextEvening,
     trail |-> <<[blog |-> [name |-> "al"],
                  content |-> <<[type |-> "text", text |-> "l1\nl2", subtype |-> "quote"],
                                [type |-> "image", media |-> <<[url |-> ImageUrl]>>],
                                [type |-> "link", url |-> "https://e.org/x"]>>],
                 [content |-> <<[type |-> "text", text |-> "t", subtype |-> "heading1"],
                                [type |-> "bogus"],
                                [type |-> "audio", media |-> [url |-> TumblrAudio]]>>],
                 [blog |-> [name |-> "cy"]],
                 [blog |-> [name |-> "di"],
                  content |-> <<[type |-> "video",
                                 media |-> [url |-> "https://www.youtube.com/watch?v=q"]]>>]>>,
     content |-> <<[type |-> "text", text |-> "x", subtype |-> "chat"],
                   [type |-> "text", text |-> ""],
                   [type |-> "image", media |-> <<[url |-> "https://64.media.tumblr.com/cd/two.png"]>>],
                   [type |-> "link", url |-> "https://e.org/y", title |-> "T"]>>]
HostedMediaPost ==
    [timestamp |-> AfterMidnight,
     content |-> <<[type |-> "video", media |-> [url |-> TumblrVideo]],
                   [type |-> "audio", media |-> [url |-> TumblrAudio]],
                   [type |-> "video", media |-> [url |-> "https://vimeo.com/77"]],
                   [type |-> "audio", media |-> [url |-> "https://SoundCloud.com/a/b"]],
                   [type |-> "video", media |-> <<>>]>>]
YouTubePost ==
    [timestamp |-> AfterMidnight,
     content |-> <<[type |-> "video", media |-> [url |-> "https://youtu.be/abc"]],
                   [type |-> "text", text |-> "again"],
                   [type |-> "video", media |-> [url |-> "https://youtu.be/abc"]],
                   [type |-> "audio", media |-> [url |-> "https://youtu.be/abc"]]>>]
LookalikePost ==
    [timestamp |-> LateEvening,
     content |-> <<[type |-> "video", media |-> [url |-> NamedLikeYouTube]],
                   [type |-> "audio", media |-> [url |-> NamedLikeSpotify]]>>]
PhotoPost ==
    [type |-> "photo", caption |-> "cap",
     photos |-> <<[original_size |-> [url |-> ImageUrl]],
                  [original_size |-> <<>>],
                  [original_size |-> [url |-> "https://64.media.tumblr.com/cd/two.png"]]>>]

\* posts with legacy fields next to structured ones
HybridPost ==
    [type |-> "text", title |-> "Old", body |-> "old body", timestamp |-> LateEvening,
     content |-> <<[type |-> "text", text |-> "new"]>>]
HybridReblog ==
    [type |-> "photo", caption |-> "old cap", tags |-> <<"r">>,
     photos |-> <<[original_size |-> [url |-> ImageUrl]]>>,
     trail |-> <<[blog |-> [name |-> "al"], content |-> <<[type |-> "text", text |-> "q"]>>]>>]

\* posts without structured content, one of each legacy type and two of no known type
LegacyTextPost ==
    [type |-> "text", title |-> "Ti", body |-> "b1\nb2", tags |-> <<"a", "b c">>,
     timestamp |-> LateEvening]
QuotePost == [type |-> "quote", text |-> "said", source |-> "me", trail |-> <<>>]
LinkPost ==
    [type |-> "link", title |-> "L", url |-> "https://e.org/l", description |-> "d",
     content |-> <<>>]
VideoPost ==
    [type |-> "video", caption |-> "vc",
     player |-> <<[embed_code |-> "<iframe src=\"https://a.b/250\">"],
                  [embed_code |-> "<iframe src=\"https://va.media.tumblr.com/big.mp4\">"]>>]
AudioPost ==
    [type |-> "audio", artist |-> "ar", track_name |-> "tr", caption |-> "ac",
     audio_source_url |-> TumblrAudio]
AnswerPost ==
    [type |-> "answer", tags |-> <<"x", "y">>, timestamp |-> NextEvening, title |-> "Q",
     body |-> "A", caption |-> "c", text |-> "t", source |-> "s", url |-> "https://e.org/a",
     photos |-> <<[original_size |-> [url |-> ImageUrl]]>>,
     video_url |-> "https://youtu.be/abc", audio_url |-> TumblrAudio,
     trail |-> <<>>, content |-> <<>>]
UntypedPost ==
    [timestamp |-> AfterMidnight, body |-> "A", video_url |-> "https://youtu.be/abc"]

\* a post whose blocks, trail entries and photos lack fields
SparsePost ==
    [trail |-> <<<<>>,
                 [blog |-> <<>>, content |-> <<[type |-> "link", url |-> "https://e.org/z"],
                                               [type |-> "link", title |-> "no url"],
                                               [type |-> "text", subtype |-> "quote"]>>],
                 [blog |-> [name |-> "el"], content |-> <<<<>>>>]>>,
     content |-> <<[type |-> "text"], [type |-> "image"], [type |-> "image", media |-> <<<<>>>>],
                   [type |-> "video"], [type |-> "audio", media |-> <<>>], [type |-> "link"],
                   [text |-> "untyped"], [type |-> "text", text |-> "last"]>>]
SparsePhotoPost ==
    [type |-> "photo", photos |-> <<<<>>, [original_size |-> <<>>],
                                    [original_size |-> [url |-> ImageUrl]]>>]

\* a reblog that repeats the image of its trail, and text only otherwise
RepeatPost ==
    [timestamp |-> NextEvening,
     trail |-> <<[blog |-> [name |-> "al"],
                  content |-> <<[type |-> "image", media |-> <<[url |-> ImageUrl]>>]>>]>>,
     content |-> <<[type |-> "text", text |-> "see"],
                   [type |-> "image", media |-> <<[url |-> ImageUrl]>>]>>]

\* the post with any of its fields absent
Restrictions(post) == {[k \in K |-> post[k]] : K \in SUBSET DOMAIN post}

\* two images of different URLs whose paths end in the same file name
OtherPicUrl == "https://64.media.tumblr.com/cd/pic.jpg"
SameNamePost ==
    [timestamp |-> NextEvening,
     content |-> <<[type |-> "image", media |-> <<[url |-> ImageUrl]>>],
                   [type |-> "image", media |-> <<[url |-> OtherPicUrl]>>]>>]

\* the posts a single call is made with
RenderPosts ==
    {TextPost, MediaPost, ReblogPost, ThreadPost, HostedMediaPost, YouTubePost,
     LookalikePost, PhotoPost, HybridPost, HybridReblog, LegacyTextPost, QuotePost,
     LinkPost, VideoPost, AudioPost, AnswerPost, UntypedPost, SparsePost, SparsePhotoPost,
     RepeatPost, SameNamePost}
        \cup Restrictions(LegacyTextPost) \cup Restrictions(QuotePost)
        \cup Restrictions(LinkPost) \cup Restrictions(VideoPost)
        \cup Restrictions(AudioPost) \cup Restrictions(HybridPost)

\* the policy flags of a single call, each on or off
RenderConfigs ==
    [download_images : BOOLEAN, download_videos : BOOLEAN, download_audio : BOOLEAN,
     add_to_youtube_playlist : BOOLEAN, delete_after_backup : {FALSE}, auth : {FALSE}]

RenderDir == AttachmentsDir("2024/03/10")

\* the attachment directory before the call: empty, or holding pic.jpg from an earlier day
RenderDisks == {{}, {Fetched(ImageUrl, RenderDir, "pic.jpg", TRUE)}}

\* the number of download_attachments calls the rendering of a post can make at most
MediaCount(post) ==
    IF ~UsesLegacy(post)
    THEN MediaBlocks(Get(post, "content", <<>>)) + TrailMediaBlocks(Get(post, "trail", <<>>))
    ELSE IF Get(post, "type", "unknown") = "photo" THEN Len(Get(post, "photos", <<>>))
    ELSE IF Get(post, "type", "unknown") \in {"video", "audio"} THEN 1
    ELSE 0

\* the outcomes that can matter to the rendering of a post
RenderOracles(post) ==
    {SubSeq(orc, 1, IF MediaCount(post) < MaxOracle THEN MediaCount(post) ELSE MaxOracle) :
        orc \in Oracles}

RenderInputs ==
    UNION {[self : RenderConfigs, post : {post}, heading : BOOLEAN,
            orc : RenderOracles(post), att : RenderDisks] : post \in RenderPosts}

InitRender ==
    ArchiveInit /\ rin \in RenderInputs /\ rout = <<>> /\ GroupIdle /\ FetchIdle
        /\ UploadIdle /\ PlaylistIdle

\* one call of convert_to_markdown: rout holds md_content and the environment it leaves
Render ==
    /\ rout = <<>>
    /\ rout' = <<MdContent(rin.self, rin.post, RenderDir, rin.heading,
                           [EmptyEnv EXCEPT !.att = rin.att, !.orc = rin.orc])>>
    /\ UNCHANGED rin

NextRender == Render /\ UNCHANGED <<archiveVars, groupVars, fetchVars, uploadVars, playlistVars>>

SpecRender == InitRender /\ [][NextRender]_vars

(***************************************************************************)
(* A single get_daily_posts call                                           *)
(***************************************************************************)
\* posts as far as get_daily_posts reads them; the last one has no timestamp
GroupPosts ==
    { [id_string |-> "1", timestamp |-> AfterMidnight],
      [id_string |-> "2", timestamp |-> AfterMidnight],
      [id_string |-> "3", timestamp |-> LateEvening],
      [id_string |-> "4", timestamp |-> NextEvening],
      [id_string |-> "5"] }

\* the lists a single call is made with
GroupInputs == UNION {[1..n -> GroupPosts] : n \in 0..MaxGroupPosts}

InitGroup ==
    ArchiveInit /\ RenderIdle /\ gin \in GroupInputs /\ gout = <<>> /\ FetchIdle
        /\ UploadIdle /\ PlaylistIdle

\* one call of get_daily_posts: gout holds what it returned
Group ==
    /\ gout = <<>>
    /\ gout' = <<get_daily_posts(gin)>>
    /\ UNCHANGED gin

NextGroup == Group /\ UNCHANGED <<archiveVars, renderVars, fetchVars, uploadVars, playlistVars>>

SpecGroup == InitGroup /\ [][NextGroup]_vars

(***************************************************************************)
(* fetch_posts and fetch_all_posts: one call, against an API that serves   *)
(* a blog of finitely many posts page by page                              *)
(***************************************************************************)

\* "limit = 20" of fetch_all_posts, and the cap "min(limit, 20)" of fetch_posts
PageLimit == 20
ApiLimit == 20

\* time.time() at the call: 2024-03-11 00:00 in Sydney
Now == 1710075600

Min(a, b) == IF a < b THEN a ELSE b

\* a blog of n posts, the newest first, ten minutes apart, the newest ten minutes old
TimedPost(k) == [id |-> k, timestamp |-> Now - 600 * k]
PlainBlog(n) == [k \in 1..n |-> TimedPost(k)]

\* the same blog with a pinned post of long ago served first
Pinned == [id |-> 0, timestamp |-> Now - 600000]
PinnedBlog(n) == IF n = 0 THEN <<>> ELSE <<Pinned>> \o PlainBlog(n - 1)

\* the same blog with a post that has no timestamp in the fourth place
UntimedBlog(n) == [k \in 1..n |-> IF k = 4 THEN [id |-> k] ELSE TimedPost(k)]

Blogs == UNION {{PlainBlog(n), PinnedBlog(n), UntimedBlog(n)} : n \in 0..MaxBlogPosts}

\* the values of incremental_hours: 0 for None
IncrementalHours == {0, 1, 3, 5, 8}

\* the API: the posts of the blog and whether its responses carry total_posts
FetchInputs ==
    [incremental_hours : IncrementalHours, blog : Blogs, reports_total : BOOLEAN,
     now : {Now}]

\* the "response" member of the API's answer to a request with the given parameters
PostsResponse(api, limit, api_offset) ==
    IF api.reports_total
    THEN [posts |-> SubSeq(api.blog, api_offset + 1, Min(api_offset + limit, Len(api.blog))),
          total_posts |-> Len(api.blog)]
    ELSE [posts |-> SubSeq(api.blog, api_offset + 1, Min(api_offset + limit, Len(api.blog)))]

\* what can become of a request: answered, failed (RequestException, also for a bad
\* status or a body that is not JSON), or answered without a "response" member
FetchOutcomes == {"answered", "failed", "no_response"}

\* fetch_posts(self, limit, offset): the dictionary returned, <<>> standing for None
fetch_posts(api, limit, api_offset, outcome) ==
    IF outcome = "failed" THEN <<>>
    ELSE IF outcome = "no_response" THEN [meta |-> [status |-> 200]]
    ELSE [response |-> PostsResponse(api, Min(limit, ApiLimit), api_offset)]

\* "cutoff_timestamp = None; if self.incremental_hours: cutoff_timestamp = ..."
CutoffTimestamp(incremental_hours, now) ==
    IF incremental_hours # 0 THEN now - incremental_hours * 3600 ELSE 0

\* a variant of the filter that leaves out a post made at the cutoff
StrictlyNewerPosts(page, cutoff) ==
    SelectSeq(page, LAMBDA p : Get(p, "timestamp", 0) > cutoff)

\* [p for p in posts if p.get("timestamp", 0) >= cutoff_timestamp]
NewPosts(page, cutoff) ==
    SelectSeq(page, LAMBDA p : Get(p, "timestamp", 0) >= cutoff)

\* "len(new_posts) < len(posts) or (posts and posts[-1].get("timestamp", 0) < cutoff)"
ReachedCutoff(page, cutoff) ==
    \/ Len(NewPosts(page, cutoff)) < Len(page)
    \/ (page # <<>> /\ Get(page[Len(page)], "timestamp", 0) < cutoff)

\* "if not response or "response" not in response: break"
NoResponse(response) == response = <<>> \/ "response" \notin DOMAIN response

\* posts = response["response"].get("posts", [])
PagePosts(response) == Get(response["response"], "posts", <<>>)

\* all_posts after the page is taken in
Extended(collected, page, cutoff) ==
    IF cutoff # 0 THEN collected \o NewPosts(page, cutoff) ELSE collected \o page

\* the loop is left after the page was taken in: the cutoff was reached, or all posts
\* the API counts are fetched
BreaksAfter(collected, response, cutoff) ==
    IF cutoff # 0
    THEN ReachedCutoff(PagePosts(response), cutoff)
    ELSE Len(Extended(collected, PagePosts(response), cutoff))
            >= Get(response["response"], "total_posts", 0)

\* a variant of the step to the next page that stays on the page
SameOffset(current, limit) == current

\* offset += limit
NextOffset(current, limit) == current + limit

\* fetch_all_posts up to its loop
FetchStart ==
    /\ fpc = "start"
    /\ all_posts' = <<>>
    /\ offset' = 0
    /\ cutoff_timestamp' = CutoffTimestamp(fin.incremental_hours, fin.now)
    /\ fpc' = "loop"
    /\ UNCHANGED <<fin, fetch_log>>

\* one pass through "while True" for the response at hand, up to the sleep or the return
FetchedPage(response) ==
    /\ fetch_log' = Append(fetch_log, [offset |-> offset, response |-> response])
    /\ IF NoResponse(response)
       THEN UNCHANGED <<all_posts, offset>> /\ fpc' = "returned"
       ELSE IF PagePosts(response) = <<>>
       THEN UNCHANGED <<all_posts, offset>> /\ fpc' = "returned"
       ELSE /\ all_posts' = Extended(all_posts, PagePosts(response), cutoff_timestamp)
            /\ IF BreaksAfter(all_posts, response, cutoff_timestamp)
               THEN UNCHANGED offset /\ fpc' = "returned"
               ELSE offset' = NextOffset(offset, PageLimit) /\ fpc' = "loop"

\* one pass through the loop of fetch_all_posts
FetchPage ==
    /\ fpc = "loop"
    /\ \E outcome \in FetchOutcomes :
          FetchedPage(fetch_posts(fin, PageLimit, offset, outcome))
    /\ UNCHANGED <<fin, cutoff_timestamp>>

InitFetch ==
    /\ ArchiveInit /\ RenderIdle /\ GroupIdle /\ UploadIdle /\ PlaylistIdle
    /\ fin \in FetchInputs
    /\ fpc = "start" /\ all_posts = <<>> /\ offset = 0 /\ cutoff_timestamp = 0
    /\ fetch_log = <<>>

NextFetch ==
    \/ FetchStart /\ UNCHANGED <<archiveVars, renderVars, groupVars, uploadVars, playlistVars>>
    \/ FetchPage /\ UNCHANGED <<archiveVars, renderVars, groupVars, uploadVars, playlistVars>>

SpecFetch == InitFetch /\ [][NextFetch]_vars

\* the same with the loop running on: nothing but a request can hold the call up, and
\* every request returns (an answer, or an error from the connection)
SpecFetchLive == SpecFetch /\ WF_vars(NextFetch)

\* ---------------------------------------------------------------------------
\* upload_to_dropbox.py: the upload of one file of the folder.  A file is its
\* size: the bytes a call carries are the positions from..from+len-1 of the
\* file.  Every Dropbox call either answers or raises, and an exception leaves
\* upload_large_file and is caught by the except clause of the caller.
\* ---------------------------------------------------------------------------
CHUNK_SIZE == 4 * 1024 * 1024
LargeFileThreshold == 150 * 1024 * 1024
FirstLargeChunks == 38
FileSizes ==
    {0, 1, CHUNK_SIZE, LargeFileThreshold, LargeFileThreshold + 1}
        \cup {k * CHUNK_SIZE + d : k \in FirstLargeChunks..MaxFileChunks, d \in {-1, 0, 1}}
ApiOutcomes == {"ok", "raised"}

\* file_obj.read(CHUNK_SIZE) at position pos of a file of the given size
ChunkRead(size, pos) == IF pos >= size THEN 0 ELSE Min(CHUNK_SIZE, size - pos)
IsLastChunkOrEarlier(size, pos) == (size - pos) < CHUNK_SIZE
IsLastChunk(size, pos) == (size - pos) <= CHUNK_SIZE
ApiCall(op, from, len, cursor_offset, outcome) ==
    [op |-> op, from |-> from, len |-> len, offset |-> cursor_offset, outcome |-> outcome]

\* lines 55-69: open, stat, and the choice between the session and one upload
UploadFile ==
    /\ upc = "file"
    /\ IF uin > LargeFileThreshold
       THEN /\ upc' = "start"
            /\ UNCHANGED <<uin, tell, cursor, api_calls, uploaded_count>>
       ELSE \E outcome \in ApiOutcomes :
            /\ api_calls' = <<ApiCall("upload", 0, uin, 0, outcome)>>
            /\ tell' = uin
            /\ upc' = IF outcome = "ok" THEN "done" ELSE "failed"
            /\ uploaded_count' = IF outcome = "ok" THEN uploaded_count + 1 ELSE uploaded_count
            /\ UNCHANGED <<uin, cursor>>

\* lines 80-85: the first chunk opens the session, the cursor is at tell()
SessionStart ==
    /\ upc = "start"
    /\ \E outcome \in ApiOutcomes :
        /\ api_calls' = Append(api_calls, ApiCall("start", tell, ChunkRead(uin, tell), 0, outcome))
        /\ tell' = tell + ChunkRead(uin, tell)
        /\ cursor' = IF outcome = "ok" THEN tell' ELSE cursor
        /\ upc' = IF outcome = "ok" THEN "loop" ELSE "failed"
    /\ UNCHANGED <<uin, uploaded_count>>

\* lines 87-100: one pass of the loop, a finish for the last chunk, else an append
LoopPass ==
    /\ upc = "loop" /\ tell < uin
    /\ \E outcome \in ApiOutcomes :
        /\ api_calls' = Append(api_calls,
               ApiCall(IF IsLastChunk(uin, tell) THEN "finish" ELSE "append",
                       tell, ChunkRead(uin, tell), cursor, outcome))
        /\ tell' = tell + ChunkRead(uin, tell)
        /\ cursor' = IF outcome = "ok" /\ ~IsLastChunk(uin, tell) THEN tell' ELSE cursor
        /\ upc' = IF outcome = "ok" THEN "loop" ELSE "failed"
    /\ UNCHANGED <<uin, uploaded_count>>

\* line 87 false, then line 69: upload_large_file returns and the file counts
UploadReturn ==
    /\ upc = "loop" /\ tell >= uin
    /\ upc' = "done"
    /\ uploaded_count' = uploaded_count + 1
    /\ UNCHANGED <<uin, tell, cursor, api_calls>>

InitUpload ==
    /\ ArchiveInit /\ RenderIdle /\ GroupIdle /\ FetchIdle /\ PlaylistIdle
    /\ uin \in FileSizes /\ upc = "file" /\ tell = 0 /\ cursor = 0
    /\ api_calls = <<>> /\ uploaded_count = 0
NextUpload ==
    /\ UploadFile \/ SessionStart \/ LoopPass \/ UploadReturn
    /\ UNCHANGED <<archiveVars, renderVars, groupVars, fetchVars, playlistVars>>
SpecUpload == InitUpload /\ [][NextUpload]_vars
\* the upload runs in one thread and every Dropbox call returns or raises
SpecUploadLive == SpecUpload /\ WF_vars(NextUpload)

\* ---------------------------------------------------------------------------
\* youtube_playlist.py: one add_videos_to_playlist call.  The playlist is the
\* sequence of the video ids of its items; an insert that the service accepts
\* adds an item, also for a video that the playlist already holds.
\* ---------------------------------------------------------------------------
VideoIdLength == 11
MaxResults == 50
\* [a-zA-Z0-9_-]
IdChars ==
    {CharAt(LowerAlphabet, i) : i \in 1..Len(LowerAlphabet)}
        \cup {CharAt(UpperAlphabet, i) : i \in 1..Len(UpperAlphabet)}
        \cup {CharAt(Digits, i) : i \in 1..Len(Digits)} \cup {"_", "-"}
\* the literal parts of the three patterns, in the order they are tried
IdPatterns ==
    << {"youtube.com/watch?v=", "youtu.be/"}, {"youtube.com/embed/"}, {"youtube.com/v/"} >>
\* the literal is at position i of url and eleven id characters follow it
MatchesAt(url, i, literal) ==
    /\ i + Len(literal) + VideoIdLength - 1 <= Len(url)
    /\ SubSeq(url, i, i + Len(literal) - 1) = literal
    /\ \A j \in (i + Len(literal))..(i + Len(literal) + VideoIdLength - 1) :
            CharAt(url, j) \in IdChars
PatternMatchesAt(url, i, literals) == \E literal \in literals : MatchesAt(url, i, literal)
\* match.group(1) for the match at position i
GroupAt(url, i, literal) ==
    SubSeq(url, i + Len(literal), i + Len(literal) + VideoIdLength - 1)
\* re.search(pattern, url): the leftmost match, None when there is none
Search(url, literals) ==
    IF \E i \in 1..Len(url) : PatternMatchesAt(url, i, literals)
    THEN GroupAt(url,
                 CHOOSE i \in 1..Len(url) :
                     /\ PatternMatchesAt(url, i, literals)
                     /\ \A j \in 1..(i - 1) : ~PatternMatchesAt(url, j, literals),
                 CHOOSE literal \in literals :
                     \E i \in 1..Len(url) :
                         /\ MatchesAt(url, i, literal)
                         /\ \A j \in 1..(i - 1) : ~PatternMatchesAt(url, j, literals))
    ELSE None
\* extract_video_id(self, url)
RECURSIVE ExtractFrom(_, _)
ExtractFrom(url, k) ==
    IF k > Len(IdPatterns) THEN None
    ELSE IF Search(url, IdPatterns[k]) # None THEN Search(url, IdPatterns[k])
    ELSE ExtractFrom(url, k + 1)
extract_video_id(url) == ExtractFrom(url, 1)

\* lines 195-199: the ids of the URLs that have one, in the order of the URLs
RECURSIVE ExtractAll(_)
ExtractAll(video_urls) ==
    IF video_urls = <<>> THEN <<>>
    ELSE IF extract_video_id(Head(video_urls)) # None
    THEN <<extract_video_id(Head(video_urls))>> \o ExtractAll(Tail(video_urls))
    ELSE ExtractAll(Tail(video_urls))

\* the list requests one get_playlist_video_ids call sends for a playlist
PageCount(items) ==
    IF Len(items) = 0 THEN 1 ELSE (Len(items) + MaxResults - 1) \div MaxResults
\* get_playlist_video_ids(self) when the request of page failed_page raises
\* HttpError (0: none does): the ids of the pages read before it
get_playlist_video_ids(items, failed_page) ==
    {items[i] : i \in 1..(IF failed_page = 0 THEN Len(items)
                          ELSE Min(Len(items), (failed_page - 1) * MaxResults))}

\* line 210: video_id in existing_ids
AlreadyKnown(video_id, known, items) == video_id \in known

\* what the service can answer to an insert
InsertOutcomes(video_id, items) ==
    {"inserted", "error"}
        \cup (IF \E i \in 1..Len(items) : items[i] = video_id THEN {"already"} ELSE {})
Counted(current, key) == [current EXCEPT ![key] = @ + 1]

\* lines 192-206
PlaylistStart ==
    /\ ypc = "start"
    /\ video_ids' = ExtractAll(yin.video_urls)
    /\ IF video_ids' = <<>>
       THEN ypc' = "returned" /\ UNCHANGED <<existing_ids, vid_index>>
       ELSE /\ \E failed_page \in 0..PageCount(playlist) :
                existing_ids' = get_playlist_video_ids(playlist, failed_page)
            /\ ypc' = "loop" /\ vid_index' = 1
    /\ UNCHANGED <<yin, playlist, insert_log, results>>

\* lines 209-218 with add_video_to_playlist (146-180): one pass of the loop
AddVideo ==
    /\ ypc = "loop" /\ vid_index <= Len(video_ids)
    /\ IF AlreadyKnown(video_ids[vid_index], existing_ids, playlist)
       THEN /\ results' = Counted(results, "skipped")
            /\ UNCHANGED <<playlist, insert_log>>
       ELSE \E outcome \in InsertOutcomes(video_ids[vid_index], playlist) :
            /\ insert_log' = Append(insert_log,
                   [video_id |-> video_ids[vid_index], playlist |-> playlist,
                    outcome |-> outcome])
            /\ playlist' = IF outcome = "inserted"
                           THEN Append(playlist, video_ids[vid_index]) ELSE playlist
            /\ results' = Counted(results, IF outcome = "inserted" THEN "added" ELSE "failed")
    /\ vid_index' = vid_index + 1
    /\ UNCHANGED <<yin, ypc, video_ids, existing_ids>>

\* line 220
PlaylistReturn ==
    /\ ypc = "loop" /\ vid_index > Len(video_ids)
    /\ ypc' = "returned"
    /\ UNCHANGED <<yin, video_ids, existing_ids, vid_index, playlist, insert_log, results>>

WatchUrl == "https://www.youtube.com/watch?v=dQw4w9WgXcQ"
ShortUrl == "https://youtu.be/dQw4w9WgXcQ?t=42"
EmbedUrl == "https://www.youtube.com/embed/9bZkp7q19f0"
ChannelUrl == "https://www.youtube.com/channel/UC38IQsAvIsxxjztdMZQtwHA"
LegacyUrl == "https://www.youtube.com/v/kJQP7kiw5Fk_extra"
PlaylistUrls == {WatchUrl, ShortUrl, EmbedUrl, ChannelUrl, LegacyUrl}
Playlists == {<<>>, <<"9bZkp7q19f0">>, <<"kJQP7kiw5Fk", "dQw4w9WgXcQ">>}
RECURSIVE SeqsUpTo(_, _)
SeqsUpTo(S, n) ==
    IF n = 0 THEN {<<>>}
    ELSE SeqsUpTo(S, n - 1) \cup {Append(s, x) : s \in SeqsUpTo(S, n - 1), x \in S}
PlaylistInputs == [video_urls : SeqsUpTo(PlaylistUrls, MaxUrls), playlist : Playlists]

InitPlaylist ==
    /\ ArchiveInit /\ RenderIdle /\ GroupIdle /\ FetchIdle /\ UploadIdle
    /\ yin \in PlaylistInputs /\ ypc = "start" /\ playlist = yin.playlist
    /\ video_ids = <<>> /\ existing_ids = {} /\ vid_index = 0 /\ insert_log = <<>>
    /\ results = [added |-> 0, skipped |-> 0, failed |-> 0]
NextPlaylist ==
    /\ PlaylistStart \/ AddVideo \/ PlaylistReturn
    /\ UNCHANGED <<archiveVars, renderVars, groupVars, fetchVars, uploadVars>>
SpecPlaylist == InitPlaylist /\ [][NextPlaylist]_vars

(***************************************************************************)
(* Properties of the archive (Spec)                                        *)
(***************************************************************************)

\* the day file of date_key exists and holds more than 10 characters
LongFile(date_key) == date_key \in DOMAIN files /\ Len(files[date_key]) > 10

\* the save_daily_posts call that has just returned took the given path
JustReturned(path) == pc \in {"save", "done"} /\ last_save.path = path

\* a save_daily_posts call for the day d, when one begins here, returns by the skip path
\* with no download_attachments call, no request and no delete_post call
SkipsUntouched(d) ==
    (pc = "save" /\ CurrentKey = d)
        => /\ pc' \in {"save", "done"}
           /\ last_save' = [key |-> d, path |-> "skip"]
           /\ env'.att = env.att /\ env'.calls = <<>> /\ env'.gets = <<>>
           /\ delete_calls' = <<>> /\ requested' = requested /\ deleted' = deleted

\* C1: once save_daily_posts has written the file of a date key completely, no step
\* changes or removes that file, the file is longer than 10 characters, and every
\* save_daily_posts call for that date key (whatever the run, its posts and its flags)
\* returns by the skip path without resolving an attachment or invoking delete_post.
C1_DayFileImmutable ==
    [][\A d \in DOMAIN written :
          /\ d \in DOMAIN files' /\ files'[d] = files[d]
          /\ d \in DOMAIN written' /\ written'[d] = written[d]
          /\ Len(files[d]) > 10
          /\ SkipsUntouched(d)]_vars

\* the second run, which deletes, has skipped a day written by the first run although it
\* fetched other posts for that day
C1_Witness ==
    /\ runs = 2 /\ self.delete_after_backup /\ self.auth
    /\ JustReturned("skip")
    /\ last_save.key \in DOMAIN written
    /\ PostIds(daily_posts.groups[last_save.key]) # written[last_save.key]

\* C2: in every reachable state, a post for which a delete request has been issued is
\* one of the posts of a day file that has been written completely (delete_post is
\* invoked only after the successful write of the day's document).
C2_DeleteAfterWrite ==
    \A id \in requested :
        \E d \in DOMAIN written : \E k \in 1..Len(written[d]) : written[d][k] = id

\* the number of posts whose entry daily_content holds
Entries(content) == (Len(content) - 2) \div 4

\* C3: with deletion enabled, delete_post has been invoked exactly once for each post the
\* loop has passed, in order, whether or not an earlier deletion failed: for all posts of
\* the day when the file is written, and the file then holds the entries of all of them.
C3_DeletionsIndependent ==
    self.delete_after_backup =>
        /\ pc \in {"convert", "delete"}
              => delete_calls = SubSeq(PostIds(CurrentPosts), 1, post_index - 1)
        /\ pc = "write" => delete_calls = PostIds(CurrentPosts)
        /\ JustReturned("write")
              => /\ delete_calls = PostIds(daily_posts.groups[last_save.key])
                 /\ Entries(daily_content) = Len(daily_posts.groups[last_save.key])
                 /\ files[last_save.key] = FileText(daily_content)

\* a day of two posts has been written although the deletion of the first post failed;
\* the second post was deleted all the same
C3_Witness ==
    /\ self.delete_after_backup /\ self.auth
    /\ JustReturned("write")
    /\ Len(delete_calls) = 2
    /\ delete_calls[1] \notin deleted
    /\ delete_calls[2] \in deleted

\* the files after the day file of the current day has been replaced by the document
Replaced ==
    [d \in DOMAIN files \cup {CurrentKey} |->
        IF d = CurrentKey THEN FileText(daily_content) ELSE files[d]]

\* C4: save_daily_posts returns at once, leaving files, attachments, the blog's posts and
\* youtube_urls as they are, exactly when the day file exists with more than 10
\* characters; otherwise it goes on to render the day, and a write that succeeds replaces
\* the file by the document of all posts of the day.
C4_SkipThresholdAndFrame ==
    [][/\ (pc = "save" /\ LongFile(CurrentKey))
            => /\ pc' \in {"save", "done"} /\ last_save'.path = "skip"
               /\ files' = files /\ env'.att = env.att /\ env'.yt = env.yt
               /\ deleted' = deleted /\ requested' = requested
       /\ (pc = "save" /\ ~LongFile(CurrentKey))
            => pc' = "convert" /\ files' = files
       /\ pc \in {"convert", "delete", "write"} => ~LongFile(CurrentKey)
       /\ (pc = "write" /\ pc' \in {"save", "done"})
            => files' = Replaced /\ Entries(daily_content) = Len(CurrentPosts)]_vars

\* a day whose file was left with 11 characters by a failed write has been skipped
C4_Witness ==
    /\ JustReturned("skip")
    /\ Len(files[last_save.key]) = 11
    /\ last_save.key \notin DOMAIN written

\* "YYYY-MM-DD" of the date_key "YYYY/MM/DD"
DashDate(date_key) ==
    SubSeq(date_key, 1, 4) \o "-" \o SubSeq(date_key, 6, 7) \o "-" \o SubSeq(date_key, 9, 10)

\* the markdown a post of the day can have been rendered to, its image fetched or not
PossibleMarkdown(cfg, post, date_key) ==
    {convert_to_markdown(cfg, post, AttachmentsDir(date_key), TRUE,
                         [EmptyEnv EXCEPT !.orc = <<o>>]).ret : o \in {"ok", "http_fail"}}

RECURSIVE PostsWithRules(_, _)
\* the rendered posts held by daily_content from post k on, a rule between each two
PostsWithRules(content, k) ==
    content[4 * k - 1] \o "\n"
        \o (IF 4 * k + 3 <= Len(content)
            THEN "\n---\n\n" \o PostsWithRules(content, k + 1) ELSE "")

\* C6: the document save_daily_posts writes for the n >= 1 posts of a day is the heading
\* "# YYYY-MM-DD", a blank line, and the n rendered posts in the order given, with the
\* rule "---" between each two of them (n - 1 rules) and none after the last.
C6_DayDocumentStructure ==
    [][(pc = "write" /\ pc' \in {"save", "done"})
          => /\ Entries(daily_content) = Len(CurrentPosts)
             /\ \A k \in 1..Len(CurrentPosts) :
                   daily_content[4 * k - 1]
                       \in PossibleMarkdown(self, CurrentPosts[k], CurrentKey)
             /\ files'[CurrentKey] =
                   "# " \o DashDate(CurrentKey) \o "\n\n" \o PostsWithRules(daily_content, 1)]_vars

\* a day of two posts has been written
C6_Witness ==
    /\ JustReturned("write")
    /\ Len(written[last_save.key]) = 2
    /\ Len(files[last_save.key]) > Len(daily_content[3]) + Len(daily_content[7])

(***************************************************************************)
(* Properties of get_daily_posts (SpecGroup)                               *)
(***************************************************************************)

\* the local calendar day (Australia/Sydney) of each post of GroupPosts, by its id:
\* 00:30 on 10 March 2024, 23:30 on 9 March, 23:00 on 10 March, and for the post
\* without a timestamp 10:00 on 1 January 1970
LocalDay ==
    [id \in {"1", "2", "3", "4", "5"} |->
        IF id = "3" THEN "2024/03/09" ELSE IF id = "5" THEN "1970/01/01" ELSE "2024/03/10"]

\* the sort key of a post
SortKey(post) == Get(post, "timestamp", 0)

\* the posts of a list that fall on the day and carry the sort key t, in the list's order
OfDayAndTime(list, day, t) ==
    SelectSeq(list, LAMBDA p : LocalDay[p.id_string] = day /\ SortKey(p) = t)

\* the posts of a list that carry the sort key t, in the list's order
OfTime(list, t) == SelectSeq(list, LAMBDA p : SortKey(p) = t)

\* the group g of the day holds exactly the input posts of that day, in ascending order
\* of timestamp, those of equal timestamp in their input order
SortedPartOf(g, day, input) ==
    /\ \A i, j \in 1..Len(g) : i < j => SortKey(g[i]) <= SortKey(g[j])
    /\ \A p \in GroupPosts : OfTime(g, SortKey(p)) = OfDayAndTime(input, day, SortKey(p))

\* C5: get_daily_posts returns one group for each local calendar day on which an input
\* post falls; the group of a day holds exactly the input posts of that day (so every
\* post is in exactly one group), in ascending order of timestamp, posts of equal
\* timestamp in their original relative order.
C5_GroupsPartitionAndSort ==
    gout # <<>> =>
        /\ DOMAIN gout[1].groups = {LocalDay[gin[k].id_string] : k \in 1..Len(gin)}
        /\ {gout[1].keys[k] : k \in 1..Len(gout[1].keys)} = DOMAIN gout[1].groups
        /\ Cardinality(DOMAIN gout[1].groups) = Len(gout[1].keys)
        /\ \A day \in DOMAIN gout[1].groups : SortedPartOf(gout[1].groups[day], day, gin)

\* a list that holds a later post before two posts of equal timestamp of the same day has
\* been grouped
C5_Witness ==
    /\ gout # <<>>
    /\ Len(gin) = 3
    /\ gin[1].id_string = "4" /\ gin[2].id_string = "2" /\ gin[3].id_string = "1"
    /\ PostIds(gout[1].groups["2024/03/10"]) = <<"2", "1", "4">>

(***************************************************************************)
(* Properties of convert_to_markdown (SpecRender)                          *)
(***************************************************************************)

RECURSIVE TrailBlocks(_)
\* the content blocks of the entries of a trail, one entry after the other
TrailBlocks(trail) ==
    IF trail = <<>> THEN <<>>
    ELSE Get(trail[1], "content", <<>>) \o TrailBlocks(Tail(trail))

\* the blocks a post is rendered from, in the order they are rendered
RenderedBlocks(post) == TrailBlocks(Get(post, "trail", <<>>)) \o Get(post, "content", <<>>)

\* the blocks of a type among them
BlocksOfType(post, type) ==
    SelectSeq(RenderedBlocks(post), LAMBDA b : Get(b, "type", "") = type)

\* the non-empty values of a list of strings
NonEmpty(list) == SelectSeq(list, LAMBDA u : u # "")

\* the URLs of the video or audio blocks of a post, in order
MediaUrlsOf(blocks) ==
    NonEmpty([k \in 1..Len(blocks) |-> Get(Get(blocks[k], "media", <<>>), "url", "")])
VideoUrls(post) == MediaUrlsOf(BlocksOfType(post, "video"))
AudioUrls(post) == MediaUrlsOf(BlocksOfType(post, "audio"))

\* s ends with suffix
EndsWith(s, suffix) ==
    Len(s) >= Len(suffix) /\ SubSeq(s, Len(s) - Len(suffix) + 1, Len(s)) = suffix

\* the host of the URL is one of the domains or a subdomain of one
HostIn(url, domains) ==
    \E k \in 1..Len(domains) :
        \/ Lower(urlparse(url).netloc) = domains[k]
        \/ EndsWith(Lower(urlparse(url).netloc), "." \o domains[k])

\* the URLs download_attachments was called with from the given place, in order
CallUrls(calls, site) ==
    [k \in 1..Len(SelectSeq(calls, LAMBDA c : c.site = site)) |->
        SelectSeq(calls, LAMBDA c : c.site = site)[k].url]

\* some line of the output is the opening followed by the target and ")", plain or quoted
Embeds(lines, opening, target) ==
    \E k \in 1..Len(lines) :
        lines[k] \in {opening \o target \o ")", ">" \o opening \o target \o ")"}

\* C7: download_attachments is invoked for a video block with a non-empty URL if and only
\* if download_videos is set and the host of the URL is none of youtube.com, youtu.be,
\* vimeo.com, instagram.com, and otherwise the URL itself is embedded; likewise for an
\* audio block with download_audio and spotify.com, soundcloud.com, bandcamp.com.
C7_DownloadDecisionByHost ==
    rout # <<>> =>
        /\ CallUrls(rout[1].env.calls, "video_block")
              = SelectSeq(VideoUrls(rin.post),
                          LAMBDA u : rin.self.download_videos /\ ~HostIn(u, VideoDomains))
        /\ CallUrls(rout[1].env.calls, "audio_block")
              = SelectSeq(AudioUrls(rin.post),
                          LAMBDA u : rin.self.download_audio /\ ~HostIn(u, AudioDomains))
        /\ \A k \in 1..Len(VideoUrls(rin.post)) :
              (~rin.self.download_videos \/ HostIn(VideoUrls(rin.post)[k], VideoDomains))
                  => Embeds(rout[1].lines, "[Video](", VideoUrls(rin.post)[k])
        /\ \A k \in 1..Len(AudioUrls(rin.post)) :
              (~rin.self.download_audio \/ HostIn(AudioUrls(rin.post)[k], AudioDomains))
                  => Embeds(rout[1].lines, "[Audio](", AudioUrls(rin.post)[k])

\* C8: after a post is rendered, youtube_urls holds, when add_to_youtube_playlist is set,
\* the URL of each video block whose host is youtube.com or youtu.be, once for each
\* occurrence and whatever download_videos says, and nothing else; it is empty when the
\* flag is not set.
C8_PlaylistCollection ==
    rout # <<>> =>
        rout[1].env.yt =
            IF rin.self.add_to_youtube_playlist
            THEN SelectSeq(VideoUrls(rin.post), LAMBDA u : HostIn(u, YouTubeDomains))
            ELSE <<>>

\* the URLs of the images of a post, in the order they are rendered: those of the legacy
\* photos when the legacy fallback applies, those of the image blocks otherwise
PhotoUrls(photos) ==
    NonEmpty([k \in 1..Len(photos) |-> Get(Get(photos[k], "original_size", <<>>), "url", "")])
ImageBlockUrls(blocks) ==
    NonEmpty([k \in 1..Len(blocks) |-> FirstMediaUrl(Get(blocks[k], "media", <<>>))])
ImageUrls(post) ==
    IF UsesLegacy(post)
    THEN (IF Get(post, "type", "unknown") = "photo"
          THEN PhotoUrls(Get(post, "photos", <<>>)) ELSE <<>>)
    ELSE ImageBlockUrls(BlocksOfType(post, "image"))

\* the download_attachments calls made for images
ImageCalls(calls) == SelectSeq(calls, LAMBDA c : c.site \in {"image_block", "photo"})

\* s starts with prefix
StartsWith(s, prefix) == Len(s) >= Len(prefix) /\ SubSeq(s, 1, Len(prefix)) = prefix

\* the lines of the output that embed an image, and what each embeds
ImageLines(lines) ==
    SelectSeq(lines, LAMBDA l : \E opening \in {"![Image](", ">![Image](", "![Photo]("} :
                                     StartsWith(l, opening))
Embedded(lines) ==
    [k \in 1..Len(lines) |-> SubSeq(lines[k], Find(lines[k], "(") + 1, Len(lines[k]) - 1)]

\* C9: with download_images not set, rendering a post makes no download_attachments call
\* for an image block or a legacy photo and embeds the URL of each image as it is; with
\* download_images set, it makes one call for each image and embeds what the call returned.
C9_ImagePolicy ==
    rout # <<>> =>
        IF rin.self.download_images
        THEN /\ CallUrls(rout[1].env.calls, "image_block")
                    \o CallUrls(rout[1].env.calls, "photo") = ImageUrls(rin.post)
             /\ Embedded(ImageLines(rout[1].lines))
                    = [k \in 1..Len(ImageCalls(rout[1].env.calls)) |->
                          ImageCalls(rout[1].env.calls)[k].ret]
        ELSE /\ ImageCalls(rout[1].env.calls) = <<>>
             /\ Embedded(ImageLines(rout[1].lines)) = ImageUrls(rin.post)

\* a post with an image in its trail and an image of its own has been rendered with
\* download_images not set
C9_Witness ==
    /\ rout # <<>>
    /\ ~rin.self.download_images
    /\ rin.post = ThreadPost
    /\ Embeds(rout[1].lines, "![Image](", ImageUrl)
    /\ Embeds(rout[1].lines, "![Image](", "https://64.media.tumblr.com/cd/two.png")

\* the lines of a trail entry: the blog line, then the lines of its content blocks as
\* rendered without quoting, each behind one ">", then a blank line
OnceQuoted(lines, trail_item, r) ==
    [lines |-> lines \o <<BlogLine(trail_item)>> \o PrefixLines(">", r.lines) \o <<"">>,
     env |-> r.env]

RECURSIVE FlatTrailFrom(_, _, _, _, _)
\* the lines of the trail from entry i on, every entry quoted once
FlatTrailFrom(cfg, trail, i, attachments_dir, acc) ==
    IF i > Len(trail) THEN acc
    ELSE FlatTrailFrom(cfg, trail, i + 1, attachments_dir,
             IF Get(trail[i], "content", <<>>) # <<>>
             THEN OnceQuoted(acc.lines, trail[i],
                             process_npf_content_blocks(cfg, trail[i]["content"],
                                                        attachments_dir, 0, acc.env))
             ELSE AddLines(acc, <<BlogLine(trail[i])>>))

\* the lines of the post's own content blocks, rendered without quoting
Unquoted(cfg, post, attachments_dir, acc) ==
    Extend(acc.lines,
           process_npf_content_blocks(cfg, Get(post, "content", <<>>), attachments_dir, 0,
                                      acc.env))

\* C10: for a post with a non-empty trail, the lines of every trail entry's content
\* blocks are those blocks' lines behind exactly one ">", whatever the position of the
\* entry in the trail, and the lines of the post's own content blocks carry no ">" prefix.
C10_FlatQuoteNesting ==
    (rout # <<>> /\ Get(rin.post, "trail", <<>>) # <<>>) =>
        rout[1].lines =
            Unquoted(rin.self, rin.post, RenderDir,
                FlatTrailFrom(rin.self, rin.post["trail"], 1, RenderDir,
                    [lines |-> TimestampHeading(rin.post, rin.heading) \o TagsLines(rin.post),
                     env |-> [EmptyEnv EXCEPT !.att = rin.att, !.orc = rin.orc]])).lines

\* a post whose trail has four entries, three of them with content blocks, has been
\* rendered: the last entry's video line is quoted once
C10_Witness ==
    /\ rout # <<>>
    /\ rin.post = ThreadPost
    /\ rin.self.download_videos
    /\ \E k \in 1..Len(rout[1].lines) :
          rout[1].lines[k] = ">[Video](https://www.youtube.com/watch?v=q)"

RECURSIVE FramedTrailFrom(_, _, _, _, _)
\* the lines of the trail from entry i on, every entry written as its blog line, the
\* lines of its content blocks at quote level 1, and a blank line
FramedTrailFrom(cfg, trail, i, attachments_dir, acc) ==
    IF i > Len(trail) THEN acc
    ELSE FramedTrailFrom(cfg, trail, i + 1, attachments_dir,
             AddLines(Extend(acc.lines \o <<BlogLine(trail[i])>>,
                             process_npf_content_blocks(cfg, Get(trail[i], "content", <<>>),
                                                        attachments_dir, 1, acc.env)),
                      <<"">>))

\* C11: for a post with a non-empty trail, the output is the heading and tag lines, then
\* for each trail entry in the order of the trail its blog line, its blocks rendered at
\* quote level 1 and a blank line - also for an entry whose list of content blocks is
\* empty - and then the lines of the post's own content.
C11_TrailOrderAndShape ==
    (rout # <<>> /\ Get(rin.post, "trail", <<>>) # <<>>) =>
        rout[1].lines =
            OwnContent(rin.self, rin.post, RenderDir,
                FramedTrailFrom(rin.self, rin.post["trail"], 1, RenderDir,
                    [lines |-> TimestampHeading(rin.post, rin.heading) \o TagsLines(rin.post),
                     env |-> [EmptyEnv EXCEPT !.att = rin.att, !.orc = rin.orc]])).lines

\* a block from which nothing is rendered: a text block without text, an image, video,
\* audio or link block without URL, a block of any other type
NoOutput(block) ==
    IF Get(block, "type", "") = "text" THEN Get(block, "text", "") = ""
    ELSE IF Get(block, "type", "") = "image"
    THEN FirstMediaUrl(Get(block, "media", <<>>)) = ""
    ELSE IF Get(block, "type", "") \in {"video", "audio"}
    THEN Get(Get(block, "media", <<>>), "url", "") = ""
    ELSE IF Get(block, "type", "") = "link" THEN Get(block, "url", "") = ""
    ELSE TRUE

\* the lines r of one block rendered alone and unquoted, put behind quote_level ">"
\* characters and followed by one separator line when more blocks follow
Separated(lines, quote_level, more, r) ==
    [lines |-> lines \o PrefixLines(Repeat(">", quote_level), r.lines)
                     \o (IF more THEN <<Repeat(">", quote_level)>> ELSE <<>>),
     env |-> r.env]

RECURSIVE BlockByBlock(_, _, _, _, _, _)
\* the lines of the blocks from block i on, put together block by block
BlockByBlock(cfg, blocks, i, attachments_dir, quote_level, acc) ==
    IF i > Len(blocks) THEN acc
    ELSE BlockByBlock(cfg, blocks, i + 1, attachments_dir, quote_level,
             IF NoOutput(blocks[i]) THEN acc
             ELSE Separated(acc.lines, quote_level, i < Len(blocks),
                            process_npf_content_blocks(cfg, <<blocks[i]>>, attachments_dir,
                                                       0, acc.env)))

RECURSIVE TrailBlockByBlock(_, _, _, _, _)
\* the lines of the trail from entry i on, the blocks of each entry put together block
\* by block at quote level 1
TrailBlockByBlock(cfg, trail, i, attachments_dir, acc) ==
    IF i > Len(trail) THEN acc
    ELSE TrailBlockByBlock(cfg, trail, i + 1, attachments_dir,
             IF Get(trail[i], "content", <<>>) # <<>>
             THEN AddLines(BlockByBlock(cfg, trail[i]["content"], 1, attachments_dir, 1,
                                        AddLines(acc, <<BlogLine(trail[i])>>)),
                           <<"">>)
             ELSE AddLines(acc, <<BlogLine(trail[i])>>))

\* every block that is not NoOutput, rendered alone, gives at least one line
OutputWhereExpected(cfg, blocks, attachments_dir, e) ==
    \A k \in 1..Len(blocks) :
        NoOutput(blocks[k])
            <=> process_npf_content_blocks(cfg, <<blocks[k]>>, attachments_dir, 0, e).lines
                    = <<>>

\* C12: process_npf_content_blocks emits the lines of the blocks in block order, each
\* line behind exactly quote_level ">" characters, with exactly one separator line (the
\* quote_level ">" characters alone) after a block if and only if the block produced
\* output and is not the last of the list; a block without text or URL or of an unknown
\* type contributes no line.  Checked on the calls convert_to_markdown makes (level 1
\* for trail entries, level 0 for the post's own blocks) and on the list of all blocks
\* of the post at every level up to MaxQuoteLevel.
C12_BlockSeparators ==
    (rout # <<>> /\ ~UsesLegacy(rin.post)) =>
        /\ rout[1].lines =
              BlockByBlock(rin.self, Get(rin.post, "content", <<>>), 1, RenderDir, 0,
                  TrailBlockByBlock(rin.self, Get(rin.post, "trail", <<>>), 1, RenderDir,
                      [lines |-> TimestampHeading(rin.post, rin.heading)
                                     \o TagsLines(rin.post),
                       env |-> [EmptyEnv EXCEPT !.att = rin.att, !.orc = rin.orc]])).lines
        /\ OutputWhereExpected(rin.self, RenderedBlocks(rin.post), RenderDir,
                               [EmptyEnv EXCEPT !.att = rin.att, !.orc = rin.orc])
        /\ \A quote_level \in 0..MaxQuoteLevel :
              process_npf_content_blocks(rin.self, RenderedBlocks(rin.post), RenderDir,
                  quote_level, [EmptyEnv EXCEPT !.att = rin.att, !.orc = rin.orc]).lines
                = BlockByBlock(rin.self, RenderedBlocks(rin.post), 1, RenderDir, quote_level,
                      [lines |-> <<>>,
                       env |-> [EmptyEnv EXCEPT !.att = rin.att, !.orc = rin.orc]]).lines

\* a post has been rendered whose own blocks are a text, an empty text, an image and a
\* link and whose trail has an entry with a block of unknown type between two others:
\* one separator follows the text and one the image, none the empty text or the link
C12_Witness ==
    /\ rout # <<>>
    /\ rin.post = ThreadPost
    /\ ~rin.self.download_images
    /\ ~rin.heading
    /\ SubSeq(rout[1].lines, Len(rout[1].lines) - 4, Len(rout[1].lines))
          = <<"**x**", "", "![Image](https://64.media.tumblr.com/cd/two.png)", "",
              "[T](https://e.org/y)">>
    /\ ~rin.self.download_audio
    /\ SubSeq(rout[1].lines, 9, 13)
          = <<"unknown:", "># t", ">", ">[Audio](" \o TumblrAudio \o ")", "">>

\* the fields of a post that hold structured data, the heading's time or the tags
StructuredFields == {"id", "id_string", "timestamp", "tags", "trail", "content"}

\* the legacy scalar fields of a post
LegacyFields ==
    {"type", "title", "body", "caption", "photos", "text", "source", "url", "description",
     "video_url", "player", "artist", "track_name", "audio_url", "audio_source_url"}

\* the post without its legacy fields
WithoutLegacyFields(post) == [k \in DOMAIN post \cap StructuredFields |-> post[k]]

\* the post without its structured content
WithoutStructure(post) == [k \in DOMAIN post \ {"trail", "content"} |-> post[k]]

\* C13: a post is rendered either from its structured data or from its legacy fields,
\* never from both.  When the trail or the list of content blocks is not empty, the
\* output, the calls made and the URLs collected are those of the same post without any
\* legacy field: no legacy field is read.  When both are empty, they are those of the
\* post with the two fields absent: the legacy dispatch alone decides the output.
C13_FallbackExclusive ==
    rout # <<>> =>
        IF Get(rin.post, "trail", <<>>) # <<>> \/ Get(rin.post, "content", <<>>) # <<>>
        THEN rout[1] = MdContent(rin.self, WithoutLegacyFields(rin.post), RenderDir,
                           rin.heading, [EmptyEnv EXCEPT !.att = rin.att, !.orc = rin.orc])
        ELSE rout[1] = MdContent(rin.self, WithoutStructure(rin.post), RenderDir,
                           rin.heading, [EmptyEnv EXCEPT !.att = rin.att, !.orc = rin.orc])

\* a reblog with a trail, no blocks of its own, and the type, caption and photos of a
\* legacy photo post has been rendered with download_images set: its output ends with
\* the trail entry and no download was made for the photo
C13_Witness ==
    /\ rout # <<>>
    /\ rin.post = HybridReblog
    /\ rin.self.download_images
    /\ ~rin.heading
    /\ rout[1].lines = <<"Tags: 'r'", "", "al:", ">q", "">>
    /\ rout[1].env.calls = <<>>

\* the post types the legacy fallback knows
LegacyTypes == {"text", "photo", "quote", "link", "video", "audio"}

RECURSIVE TagList(_)
\* the tags, each between two quote characters, with ", " between them
TagList(tags) ==
    IF Len(tags) = 1 THEN TagQuote \o tags[1] \o TagQuote
    ELSE TagQuote \o tags[1] \o TagQuote \o ", " \o TagList(Tail(tags))

\* "## HH:MM" with two digits each for the hour and the minute
IsTimeHeading(line) ==
    /\ Len(line) = 8
    /\ SubSeq(line, 1, 3) = "## "
    /\ CharAt(line, 6) = ":"
    /\ \A k \in {4, 5, 7, 8} : Find(Digits, CharAt(line, k)) > 0
    /\ StrToInt(SubSeq(line, 4, 5)) < 24
    /\ StrToInt(SubSeq(line, 7, 8)) < 60

\* the lines after the heading are the tag line and a blank line, or nothing
OnlyTagLines(lines, tags) ==
    IF tags = <<>> THEN lines = <<>> ELSE lines = <<"Tags: " \o TagList(tags), "">>

\* C14: for a post with empty trail, empty content blocks and a type that is none of
\* text, photo, quote, link, video, audio, the output is the "## HH:MM" heading and a
\* blank line when the heading is asked for, then the "Tags:" line (each tag quoted,
\* joined by ", ") and a blank line when the post has tags, and nothing else; no
\* download_attachments call is made, no HTTP request sent and no URL collected.
C14_UnknownTypeHeadingAndTagsOnly ==
    (/\ rout # <<>>
     /\ Get(rin.post, "trail", <<>>) = <<>>
     /\ Get(rin.post, "content", <<>>) = <<>>
     /\ Get(rin.post, "type", "unknown") \notin LegacyTypes) =>
        /\ IF rin.heading
           THEN /\ Len(rout[1].lines) >= 2
                /\ IsTimeHeading(rout[1].lines[1])
                /\ rout[1].lines[1]
                      = "## " \o strftime_time(fromtimestamp(Get(rin.post, "timestamp", 0)))
                /\ rout[1].lines[2] = ""
                /\ OnlyTagLines(SubSeq(rout[1].lines, 3, Len(rout[1].lines)),
                                Get(rin.post, "tags", <<>>))
           ELSE OnlyTagLines(rout[1].lines, Get(rin.post, "tags", <<>>))
        /\ rout[1].env.calls = <<>>
        /\ rout[1].env.gets = <<>>
        /\ rout[1].env.yt = <<>>
        /\ rout[1].env.att = rin.att

\* a post of type "answer" with two tags, legacy fields of every kind, a photo and a
\* YouTube video URL has been rendered with every download and the playlist switched on
C14_Witness ==
    /\ rout # <<>>
    /\ rin.post = AnswerPost
    /\ rin.heading
    /\ rin.self.download_images /\ rin.self.download_videos /\ rin.self.download_audio
    /\ rin.self.add_to_youtube_playlist
    /\ rout[1].lines = <<"## 23:00", "", "Tags: 'x', 'y'", "">>

\* the dictionary d with the default of every field it lacks
Fill(d, defaults) ==
    [k \in DOMAIN d \cup DOMAIN defaults |-> IF k \in DOMAIN d THEN d[k] ELSE defaults[k]]

\* a media entry with its URL, the empty string when it has none
FilledMedia(media) == Fill(media, [url |-> ""])

\* a content block with every field the renderer reads; the title of a block that has
\* none is the URL, as for a link without title
FilledBlockOfType(block) ==
    IF block.type = "image"
    THEN [block EXCEPT !.media = [k \in 1..Len(@) |-> FilledMedia(@[k])]]
    ELSE IF block.type \in {"video", "audio"}
    THEN [block EXCEPT !.media = FilledMedia(@)]
    ELSE block
FilledBlock(block) ==
    FilledBlockOfType(
        Fill(block, [type |-> "", text |-> "", subtype |-> "", media |-> <<>>,
                     url |-> "", title |-> Get(block, "url", "")]))
FilledBlocks(blocks) == [k \in 1..Len(blocks) |-> FilledBlock(blocks[k])]

\* a trail entry with blog, name and content blocks; name is the name given to a blog
\* that has none
FilledTrailItem(trail_item, name) ==
    [blog |-> Fill(Get(trail_item, "blog", <<>>), [name |-> name]),
     content |-> FilledBlocks(Get(trail_item, "content", <<>>))]

\* a legacy photo with its original size and URL
FilledPhoto(photo) ==
    [original_size |-> Fill(Get(photo, "original_size", <<>>), [url |-> ""])]

\* a player entry with its embed code
FilledPlayer(player) == Fill(player, [embed_code |-> ""])

\* the post with every optional field present: the empty value where the post has none
FilledTop(post) ==
    Fill(post, [timestamp |-> 0, tags |-> <<>>, trail |-> <<>>, content |-> <<>>,
                type |-> "", title |-> "", body |-> "", caption |-> "", photos |-> <<>>,
                text |-> "", source |-> "", url |-> "", description |-> "",
                video_url |-> "", player |-> <<>>, artist |-> "", track_name |-> "",
                audio_url |-> "", audio_source_url |-> ""])
FilledNested(post, name) ==
    [post EXCEPT
        !.trail = [k \in 1..Len(@) |-> FilledTrailItem(@[k], name)],
        !.content = FilledBlocks(@),
        !.photos = [k \in 1..Len(@) |-> FilledPhoto(@[k])],
        !.player = [k \in 1..Len(@) |-> FilledPlayer(@[k])]]
Filled(post, name) == FilledNested(FilledTop(post), name)

\* some optional field of the post, of a block, of a trail entry or of a photo is absent
SomeFieldAbsent(post) == Filled(post, "unknown") # post

\* C15 as stated: convert_to_markdown returns a document for a post with any of the
\* optional fields absent (timestamp, tags, trail, content, text, media, URL and title
\* of a block, blog name of a trail entry, legacy fields), and what an absent field
\* contributes is what the field contributes when it is present and empty: no content
\* of its own.
C15_AbsentFieldsOmitted ==
    rout # <<>> =>
        rout[1] = MdContent(rin.self, Filled(rin.post, ""), RenderDir, rin.heading,
                            [EmptyEnv EXCEPT !.att = rin.att, !.orc = rin.orc])

\* C15 as amended: the same, except that a trail entry without blog name is headed by
\* the line "unknown:".
C15_AbsentFieldsDefault ==
    rout # <<>> =>
        /\ rout[1] = MdContent(rin.self, Filled(rin.post, "unknown"), RenderDir, rin.heading,
                               [EmptyEnv EXCEPT !.att = rin.att, !.orc = rin.orc])
        /\ \A k \in 1..Len(rout[1].lines) : rout[1].lines[k] \in STRING

\* a post has been rendered whose blocks lack text, media, URL, title or type, whose
\* trail has an entry without any field and one without blog name: every block without
\* text or URL is left out, the link without title shows its URL
C15_Witness ==
    /\ rout # <<>>
    /\ rin.post = SparsePost
    /\ SomeFieldAbsent(rin.post)
    /\ ~rin.heading
    /\ rout[1].lines = <<"unknown:", "unknown:", ">[https://e.org/z](https://e.org/z)", ">",
                         "", "el:", "", "last">>
    /\ rout[1].env.calls = <<>>

(***************************************************************************)
(* Properties of download_attachments within an archive run (Spec)         *)
(***************************************************************************)

\* the file name download_attachments stores a URL under
FileNameOf(url) == basename(urlparse(url).path)

\* a call returned the URL it was given, or the local path of a file that is on disk
ReturnedUrlOrStoredPath(call, att, dir) ==
    \/ call.ret = call.url
    \/ /\ call.ret = "Attachments/" \o FileNameOf(call.url)
       /\ \E f \in att : f.dir = dir /\ f.name = FileNameOf(call.url)

\* the markdown of a post embeds the string as the target of an image or a link
EmbedsTarget(post_md, target) == Contains(post_md, "](" \o target \o ")")

\* the URLs of the image, video and audio blocks of a structured post
MediaUrls(post) ==
    ImageBlockUrls(BlocksOfType(post, "image")) \o VideoUrls(post) \o AudioUrls(post)

\* a request was sent for the URL and no file of that name is on disk: the fetch failed
FetchFailed(url, e, dir) ==
    /\ \E k \in 1..Len(e.gets) : e.gets[k] = url
    /\ ~\E f \in e.att : f.dir = dir /\ f.name = FileNameOf(url)

\* the step of the loop of save_daily_posts that converts the current post
ConvertStep == pc = "convert" /\ daily_content' # daily_content

\* the step that ends save_daily_posts by writing the day's file without error
WriteStep == pc = "write" /\ pc' \in {"save", "done"}

\* C16: a failure of download_attachments at any step never aborts the render.  In every
\* conversion of a post, each download_attachments call returns either the URL it was
\* given or the local path of a file on disk, the call for a URL whose fetch failed or
\* whose file was left incomplete returns that URL, no exception leaves the conversion,
\* the markdown of the post embeds what each call returned and a target for every media
\* block of the post, the post's entry is appended and the loop goes on; and the day's
\* file is then written with all that was collected.
C16_AttachmentFailureContained ==
    [][/\ ConvertStep =>
            /\ pc' \in {"convert", "delete", "write"}
            /\ Len(daily_content') = Len(daily_content) + 4
            /\ \A k \in 1..Len(env'.calls) :
                  /\ ReturnedUrlOrStoredPath(env'.calls[k], env'.att,
                                             AttachmentsDir(CurrentKey))
                  /\ EmbedsTarget(daily_content'[Len(daily_content) + 1],
                                  env'.calls[k].ret)
                  /\ FetchFailed(env'.calls[k].url, env', AttachmentsDir(CurrentKey))
                        => env'.calls[k].ret = env'.calls[k].url
                  /\ Fetched(env'.calls[k].url, AttachmentsDir(CurrentKey),
                             FileNameOf(env'.calls[k].url), FALSE) \in env'.att \ env.att
                        => env'.calls[k].ret = env'.calls[k].url
            /\ \A k \in 1..Len(MediaUrls(CurrentPosts[post_index])) :
                  \/ EmbedsTarget(daily_content'[Len(daily_content) + 1],
                                  MediaUrls(CurrentPosts[post_index])[k])
                  \/ EmbedsTarget(daily_content'[Len(daily_content) + 1],
                                  "Attachments/"
                                     \o FileNameOf(MediaUrls(CurrentPosts[post_index])[k]))
       /\ (pc = "write" => pc' \in {"write", "save", "done", "raised"})
       /\ WriteStep =>
            /\ CurrentKey \in DOMAIN files'
            /\ files'[CurrentKey] = Join(RemoveTrailingSeparator(daily_content), "\n")
      ]_vars

\* a run with download_images set has ended after the request for the image of a post
\* failed: the day's file is written and embeds the URL of the image, followed by the
\* video block that comes after it
C16_Witness ==
    /\ pc = "done"
    /\ self.download_images
    /\ "2024/03/10" \in DOMAIN files
    /\ Contains(files["2024/03/10"],
                "![Image](" \o ImageUrl \o ")\n\n[Video](https://youtu.be/abc)")
    /\ ~\E f \in env.att : f.name = "pic.jpg"

(***************************************************************************)
(* Properties of repeated download_attachments calls (SpecRender)          *)
(***************************************************************************)

\* how often x occurs in the list
Occurrences(list, x) == Cardinality({k \in 1..Len(list) : list[k] = x})

\* the call returned the relative path of the file its URL is stored under
Resolved(call) == call.ret = "Attachments/" \o FileNameOf(call.url)

\* the calls up to call j that were made with the URL
CallsUpTo(calls, j, url) == {k \in 1..j : calls[k].url = url}

Cutoff == fin.now - fin.incremental_hours * 3600

\* the post carries a timestamp at or after the cutoff
AtOrAfterCutoff(p) == "timestamp" \in DOMAIN p /\ p.timestamp >= Cutoff

\* the posts of the page a logged request was answered with; none when it failed
LoggedPage(entry) ==
    IF entry.response # <<>> /\ "response" \in DOMAIN entry.response
    THEN Get(entry.response["response"], "posts", <<>>)
    ELSE <<>>

RECURSIVE RecentOfPages(_, _)
\* the posts at or after the cutoff of the first k logged pages, page after page
RecentOfPages(log, k) ==
    IF k = 0 THEN <<>>
    ELSE RecentOfPages(log, k - 1) \o SelectSeq(LoggedPage(log[k]), AtOrAfterCutoff)

\* C18: with incremental_hours set, every post fetch_all_posts has collected (and
\* returns) has a timestamp at or after the cutoff, now minus incremental_hours * 3600;
\* the collected posts are the posts at or after the cutoff of each fetched page, page
\* after page and in the order of the page; and no page is requested after the first
\* page that contains a post older than the cutoff.
C18_IncrementalCutoff ==
    (fpc \in {"loop", "returned"} /\ fin.incremental_hours # 0) =>
        /\ \A k \in 1..Len(all_posts) : AtOrAfterCutoff(all_posts[k])
        /\ all_posts = RecentOfPages(fetch_log, Len(fetch_log))
        /\ \A k \in 1..(Len(fetch_log) - 1) :
              \A i \in 1..Len(LoggedPage(fetch_log[k])) :
                  ~("timestamp" \in DOMAIN LoggedPage(fetch_log[k])[i]
                    /\ LoggedPage(fetch_log[k])[i].timestamp < Cutoff)
        /\ fpc = "loop" =>
              \A k \in 1..Len(fetch_log) :
                  \A i \in 1..Len(LoggedPage(fetch_log[k])) :
                      AtOrAfterCutoff(LoggedPage(fetch_log[k])[i])

\* an incremental call over five hours has returned from a blog of MaxBlogPosts posts:
\* two pages were requested, the thirty posts up to the one made exactly at the cutoff
\* are returned, and the third page was not requested
C18_Witness ==
    /\ fpc = "returned"
    /\ fin.incremental_hours = 5
    /\ fin.blog = PlainBlog(MaxBlogPosts)
    /\ Len(fetch_log) = 2
    /\ Len(all_posts) = 30
    /\ all_posts[30].timestamp = Cutoff
    /\ [k \in 1..30 |-> all_posts[k].id] = [k \in 1..30 |-> k]

\* the request of a log entry failed: no answer, or an answer without "response"
RequestFailed(entry) == entry.response = <<>> \/ "response" \notin DOMAIN entry.response

RECURSIVE CountUpTo(_, _)
\* the number of posts on the first k logged pages
CountUpTo(log, k) ==
    IF k = 0 THEN 0 ELSE CountUpTo(log, k - 1) + Len(LoggedPage(log[k]))

\* the page of a log entry holds a post older than the cutoff (a post without timestamp
\* counts as made at 0)
CrossesCutoff(entry) ==
    \E i \in 1..Len(LoggedPage(entry)) : Get(LoggedPage(entry)[i], "timestamp", 0) < Cutoff

\* the loop has to stop at the k-th request: it failed, its page is empty, the posts
\* counted so far reach total_posts (full mode), or its page crosses the cutoff
\* (incremental mode)
StopsAt(log, k) ==
    \/ RequestFailed(log[k])
    \/ LoggedPage(log[k]) = <<>>
    \/ /\ fin.incremental_hours = 0
       /\ CountUpTo(log, k) >= Get(log[k].response["response"], "total_posts", 0)
    \/ /\ fin.incremental_hours # 0
       /\ CrossesCutoff(log[k])

\* the requests so far were sent with the offsets 0, 20, 40, ..., none of them but the
\* last had to stop the loop, and the loop has stopped exactly if the last had to
PagedInOrder ==
    fpc \in {"loop", "returned"} =>
        /\ \A k \in 1..Len(fetch_log) : fetch_log[k].offset = 20 * (k - 1)
        /\ \A k \in 1..(Len(fetch_log) - 1) : ~StopsAt(fetch_log, k)
        /\ fpc = "returned" => (fetch_log # <<>> /\ StopsAt(fetch_log, Len(fetch_log)))
        /\ fpc = "loop" =>
              /\ offset = 20 * Len(fetch_log)
              /\ fetch_log # <<>> => ~StopsAt(fetch_log, Len(fetch_log))
        /\ fin.incremental_hours = 0 => Len(all_posts) = CountUpTo(fetch_log, Len(fetch_log))

\* C19: for a blog of finitely many posts the loop of fetch_all_posts ends, in full and
\* in incremental mode; it stops at the first request that failed, the first empty
\* page, in full mode as soon as the posts collected reach total_posts, in incremental
\* mode as soon as a page crosses the cutoff, and not before; the offset grows by
\* exactly 20 with every pass and no offset is requested twice.
C19_PaginationTerminates == []PagedInOrder /\ <>(fpc = "returned")

\* a full fetch of a blog of MaxBlogPosts posts whose API reports total_posts has
\* returned after three requests, at the offsets 0, 20 and 40, with every post
C19_Witness ==
    /\ fpc = "returned"
    /\ fin.incremental_hours = 0
    /\ fin.reports_total
    /\ fin.blog = PlainBlog(MaxBlogPosts)
    /\ [k \in 1..Len(fetch_log) |-> fetch_log[k].offset] = <<0, 20, 40>>
    /\ all_posts = fin.blog


\* ---------------------------------------------------------------------------
\* C20: the upload session of a file larger than 150 MB
\* ---------------------------------------------------------------------------
RECURSIVE SentBefore(_)
SentBefore(k) == IF k <= 1 THEN 0 ELSE SentBefore(k - 1) + api_calls[k - 1].len
LargeFile == uin > LargeFileThreshold
UploadEnded == upc \in {"done", "failed"}
\* one start, first; then appends; a finish only as the last call
StartAppendsFinish ==
    \A k \in 1..Len(api_calls) :
        /\ (api_calls[k].op = "start") = (k = 1)
        /\ api_calls[k].op \in {"start", "append", "finish"}
        /\ api_calls[k].op = "finish" => k = Len(api_calls)
\* the cursor of an append or a finish is at the bytes sent by the calls before
CursorAtBytesSent ==
    \A k \in 2..Len(api_calls) : api_calls[k].offset = SentBefore(k)
\* the calls carry consecutive pieces of the file of at most 4 MB each
ChunksInOrderOnce ==
    \A k \in 1..Len(api_calls) :
        /\ api_calls[k].from = SentBefore(k)
        /\ api_calls[k].len <= CHUNK_SIZE
        /\ api_calls[k].from + api_calls[k].len <= uin
\* the session is complete: it ends with the finish and has carried every byte
SessionFinished ==
    /\ api_calls # <<>>
    /\ api_calls[Len(api_calls)].op = "finish"
    /\ SentBefore(Len(api_calls) + 1) = uin
NoCallRaised == \A k \in 1..Len(api_calls) : api_calls[k].outcome = "ok"
\* a call that raises is the last call, and the upload of the file has failed
RaisedEndsSession ==
    \A k \in 1..Len(api_calls) :
        api_calls[k].outcome = "raised" => k = Len(api_calls) /\ upc = "failed"

\* C20 as stated: whenever the upload of a file larger than 150 MB has ended,
\* its calls were session_start once, appends, and session_finish once as the
\* final call, with the cursor at the bytes sent, chunks of at most 4 MB, and
\* all the file's bytes sent in order, each once.
C20_SessionAlwaysFinished ==
    LargeFile /\ UploadEnded =>
        StartAppendsFinish /\ CursorAtBytesSent /\ ChunksInOrderOnce /\ SessionFinished

\* C20 amended: for a file larger than 150 MB the calls are always
\* session_start once, then appends, then at most a session_finish as the last
\* call, with the cursor at the bytes sent and consecutive chunks of at most
\* 4 MB; the upload always ends; when no call raised it has ended with the
\* session_finish after every byte was sent once, and a call that raises is
\* the last call of the session.
C20_SessionProtocol ==
    /\ [](LargeFile =>
            /\ StartAppendsFinish /\ CursorAtBytesSent /\ ChunksInOrderOnce
            /\ RaisedEndsSession
            /\ (upc = "failed" => ~NoCallRaised)
            /\ (upc = "done" => NoCallRaised /\ SessionFinished))
    /\ <>UploadEnded
\* a file of exactly 38 chunks was sent by a start, 36 appends and a finish
\* that carried a whole chunk
C20_Witness ==
    /\ uin = FirstLargeChunks * CHUNK_SIZE /\ upc = "done"
    /\ Len(api_calls) = FirstLargeChunks
    /\ api_calls[2].op = "append" /\ api_calls[2].offset = CHUNK_SIZE
    /\ api_calls[FirstLargeChunks].op = "finish"
    /\ api_calls[FirstLargeChunks].len = CHUNK_SIZE
    /\ api_calls[FirstLargeChunks].offset = uin - CHUNK_SIZE


\* ---------------------------------------------------------------------------
\* C21: no insert for a video the playlist holds, one insert per video at most
\* ---------------------------------------------------------------------------
InPlaylist(video_id, items) == \E i \in 1..Len(items) : items[i] = video_id

\* C21: add_videos_to_playlist never issues an insert request for a video id
\* that is in the playlist at the time of the request, whether it was there
\* before the call or was inserted earlier in the same call, and it issues at
\* most one insert per distinct video id.
C21_NoInsertForVideoInPlaylist ==
    /\ \A k \in 1..Len(insert_log) :
            ~InPlaylist(insert_log[k].video_id, insert_log[k].playlist)
    /\ \A j, k \in 1..Len(insert_log) :
            j # k => insert_log[j].video_id # insert_log[k].video_id

\* the part of C21 about the videos that were in the playlist before the call:
\* it holds whenever the listing of the playlist was read to its end
C21_KnownVideosSkipped ==
    \A k \in 1..Len(insert_log) :
        InPlaylist(insert_log[k].video_id, yin.playlist)
            => existing_ids # {yin.playlist[i] : i \in 1..Len(yin.playlist)}
\* the same video named by two URLs of different form was inserted twice into a
\* playlist that did not hold it
C21_InsertedTwice ==
    /\ yin.video_urls = <<WatchUrl, ShortUrl>> /\ yin.playlist = <<>>
    /\ ypc = "returned"
    /\ Len(insert_log) = 2
    /\ insert_log[2].playlist = <<"dQw4w9WgXcQ">>
    /\ playlist = <<"dQw4w9WgXcQ", "dQw4w9WgXcQ">>
    /\ results = [added |-> 2, skipped |-> 0, failed |-> 0]


\* ---------------------------------------------------------------------------
\* C22: deletion requires OAuth
\* ---------------------------------------------------------------------------
\* a step in which a delete request was sent
RequestSent == requested' # requested \/ deleted' # deleted
\* a step in which delete_post was invoked
DeletePostInvoked == Len(delete_calls') > Len(delete_calls)
\* the step of a main() call whose configuration asks for deletion without the
\* three credentials: nothing is fetched, no instance runs, nothing is sent
AbortsBeforeFetching ==
    /\ ended' = "aborted" /\ pc' = "idle"
    /\ UNCHANGED <<runs, posts, requested, deleted, files, delete_calls>>

\* C22: a delete request is sent only by an instance with all three OAuth
\* credentials; main() aborts before fetching when delete_after_backup is set
\* without them; delete_post sends no request and deletes nothing when auth is
\* not set, which is whenever a credential is missing; and delete_post is not
\* invoked when delete_after_backup is false.
C22_DeletionRequiresOAuth ==
    [][ /\ (RequestSent => All(OAuthCredentials(self)))
        /\ (Loaded(config') /\ DeleteWithoutOAuth(config') => AbortsBeforeFetching)
        /\ (DeletePostInvoked =>
              /\ self.delete_after_backup
              /\ self.auth = All(OAuthCredentials(self))
              /\ (~self.auth => ~RequestSent)) ]_vars
\* an instance without auth has run delete_post for a post and sent nothing,
\* after a main() call with the three credentials had deleted a post
C22_Witness ==
    /\ runs = 2 /\ pc \in {"convert", "write"}
    /\ self.delete_after_backup /\ ~self.auth
    /\ delete_calls # <<>>
    /\ Cardinality(requested) = 1 /\ requested = deleted
\* main() has aborted on delete_after_backup without the credentials
C22_Aborted ==
    /\ ended = "aborted" /\ Loaded(config) /\ DeleteWithoutOAuth(config)
    /\ runs = 0 /\ pc = "idle"


\* ---------------------------------------------------------------------------
\* C23: what a complete run leaves in the day files of the posts it fetched
\* ---------------------------------------------------------------------------
\* the ids of the posts in the completely written file of a day
ArchivedIds(date_key) ==
    IF date_key \in DOMAIN written
    THEN {written[date_key][k] : k \in 1..Len(written[date_key])}
    ELSE {}
InDayFile(post) == PostId(post) \in ArchivedIds(DateKeyOf(post))
\* the file of the day was on disk with more than 10 characters when the run started
ArchivedBefore(date_key) ==
    date_key \in DOMAIN files_before /\ Len(files_before[date_key]) > SkipThreshold
\* no file on disk is the rest of a write that failed
NoPartialFile == DOMAIN files = DOMAIN written
\* the file of the day of the post is as the run found it
LeftAsFound(date_key) == files[date_key] = files_before[date_key]
\* a completely written day file is never changed
WrittenFilesKept ==
    \A d \in DOMAIN written :
        d \in DOMAIN written' /\ written'[d] = written[d] /\ files'[d] = files[d]

\* C23 as stated: when a run has completed, every post it fetched is in the day
\* file of its local calendar day, also when that file had been written by an
\* earlier run.
C23_EveryFetchedPostArchived ==
    pc = "done" /\ NoPartialFile => \A k \in 1..Len(posts) : InDayFile(posts[k])

\* C23 amended: when a run has completed, every post it fetched whose day file
\* was not on disk with more than 10 characters at the start of the run is in
\* the day file of its local calendar day; the file of a day that was already
\* archived is left as the run found it, so that a post fetched later for that
\* day is not added; and a day file once written keeps its content in all
\* later runs.
C23_FetchedArchivedUnlessDayWritten ==
    /\ [](pc = "done" =>
            \A k \in 1..Len(posts) :
                IF ArchivedBefore(DateKeyOf(posts[k]))
                THEN LeftAsFound(DateKeyOf(posts[k]))
                ELSE InDayFile(posts[k]))
    /\ [][WrittenFilesKept]_vars
\* the second run has fetched a post of a day the first run had archived and a
\* post of another day: the first is not in its day file, the second is
C23_Witness ==
    /\ runs = 2 /\ pc = "done" /\ NoPartialFile
    /\ posts = <<MediaPost, ReblogPost>>
    /\ ArchivedBefore(DateKeyOf(MediaPost)) /\ ~InDayFile(MediaPost)
    /\ ArchivedIds(DateKeyOf(MediaPost)) = {PostId(TextPost)}
    /\ ~ArchivedBefore(DateKeyOf(ReblogPost)) /\ InDayFile(ReblogPost)


\* ---------------------------------------------------------------------------
\* C24 and C25: the file behind a local path that download_attachments returns
\* ---------------------------------------------------------------------------
\* the call returned a local path, not its URL
ReturnedLocalPath(call) == call.ret # call.url
\* the files of the attachments directory stored under the name of the URL
StoredFor(att, url) == {f \in att : f.dir = RenderDir /\ f.name = FileNameOf(url)}

\* C24: whenever download_attachments returns a local path for a URL, the file
\* at that path holds the content fetched from that URL; two different URLs of
\* one day are never served by one local file.
C24_LocalFileHoldsItsUrl ==
    rout # <<>> =>
        \A k \in 1..Len(rout[1].env.calls) :
            ReturnedLocalPath(rout[1].env.calls[k]) =>
                /\ rout[1].env.calls[k].ret = LocalPath(FileNameOf(rout[1].env.calls[k].url))
                /\ \E f \in StoredFor(rout[1].env.att, rout[1].env.calls[k].url) :
                        f.src = rout[1].env.calls[k].url
\* the two images of one post were both given the path of the file of the first,
\* and the second was never requested
C24_SecondLeftUnfetched ==
    /\ rout # <<>> /\ rin.post = SameNamePost /\ rin.att = {}
    /\ Len(rout[1].env.calls) = 2
    /\ rout[1].env.calls[1].ret = "Attachments/pic.jpg"
    /\ rout[1].env.calls[2].url = OtherPicUrl
    /\ rout[1].env.calls[2].ret = "Attachments/pic.jpg"
    /\ rout[1].env.gets = <<ImageUrl>>
    /\ \A f \in rout[1].env.att : f.src = ImageUrl

\* C25: download_attachments returns a local path only for a file whose
\* download completed; after a download that failed midway, a later call for
\* the same URL does not return the path of the incomplete file.
C25_NoPartialFileServed ==
    rout # <<>> =>
        \A k \in 1..Len(rout[1].env.calls) :
            ReturnedLocalPath(rout[1].env.calls[k]) =>
                \A f \in StoredFor(rout[1].env.att, rout[1].env.calls[k].url) :
                    f.src = rout[1].env.calls[k].url => f.complete
\* the first download of an image failed midway and returned the URL, the
\* second call for the same URL returned the path of the incomplete file and
\* sent no request
C25_PartialFileServed ==
    /\ rout # <<>> /\ rin.post = RepeatPost /\ rin.att = {}
    /\ Len(rout[1].env.calls) = 2
    /\ rout[1].env.calls[1].ret = ImageUrl
    /\ rout[1].env.calls[2].url = ImageUrl
    /\ rout[1].env.calls[2].ret = "Attachments/pic.jpg"
    /\ rout[1].env.gets = <<ImageUrl>>
    /\ rout[1].env.att = {Fetched(ImageUrl, RenderDir, "pic.jpg", FALSE)}

=============================================================================
